---------------------------- MODULE Spec2Model ----------------------------
(***************************************************************************)
(* The monitor execution core of the hiveary agent: the monitors' polling  *)
(* and aggregation callbacks (hiveary/monitors/__init__.py), the looping   *)
(* calls that drive them (hiveary/controller.py) and the task callback and *)
(* task handler of the network controller (hiveary/network.py).            *)
(***************************************************************************)
EXTENDS Integers, Sequences, FiniteSets, TLC

VARIABLES
  monitors,                \* NetworkController.monitors: the registered uids
  expected_values,         \* BaseMonitor.expected_values, per monitor and source
  data_points,             \* BaseMonitor.data_points, per monitor
  failing_alert_counters,  \* BaseMonitor.failing_alert_counters
  passing_alert_counters,  \* BaseMonitor.passing_alert_counters
  alert_status,            \* BaseMonitor.alert_status
  livestreams,             \* BaseMonitor.livestreams: the sinks, by routing key
  pollLoop,                \* the LoopingCall of monitor.run, per monitor
  aggLoop,                 \* the LoopingCall of monitor.send_data, per monitor
  pingLoop,                \* the LoopingCall of ping_pong
  errlog,                  \* the loops whose failure the errback has logged
  sent,                    \* the messages published by the last step
  last,                    \* the last step: operation, monitor, outcome
  hist,                    \* history: the readings fed, while they follow a scenario
  badRun,                  \* history: consecutive failing-side readings fed
  lowRun,                  \* history: consecutive passing-side readings fed
  runStart,                \* history: alert_status when the current failing-side run began
  nTrue,                   \* history: failing=true alerts emitted
  nRuns,                   \* history: failing-side runs that lasted the flop threshold
  nQual,                   \* history: those of them that began while alert_status was false
  now,                     \* the wall clock, in milliseconds since midnight UTC
  timestamps,              \* the 'timestamp' of each buffered data point, per monitor
  aggDue,                  \* when the next call of send_data is scheduled, per monitor
  delivery,                \* the task message task_callback is working on
  consuming,               \* the agent is up and drain_events consumes the task queue
  running,                 \* NetworkController.running: the agent is not stopping
  online,                  \* the public internet can be reached from the host
  http,                    \* the call of request_with_backoff in progress
  amqp,                    \* NetworkController.amqp: the connection to the broker
  drain,                   \* the worker thread that runs drain_events
  exitCode,                \* the code the process has exited with (sys.exit)
  pub,                     \* the call of publish_info_message in progress
  boot,                    \* the steps RealityAuditor.run has taken, in order
  loaded,                  \* RealityAuditor.monitors: the monitors loaded
  monitors_dir,            \* the monitor classes of RealityAuditor.monitors_dir
  external_dir,            \* the configs (*.mon) of RealityAuditor.external_dir
  reactor,                 \* the callback the reactor thread is in the middle of
  dispatch,                \* the task handler the worker thread is in the middle of
  streamed                 \* history: what each live stream was sent, by routing key

kernelVars == <<expected_values, data_points, failing_alert_counters,
                passing_alert_counters, alert_status, livestreams>>
loopVars   == <<pollLoop, aggLoop, pingLoop, errlog>>
histVars   == <<hist, badRun, lowRun, runStart, nTrue, nRuns, nQual>>
clockVars  == <<now, timestamps, aggDue>>
taskVars   == <<delivery, consuming>>
netVars    == <<running, online, http, amqp, drain, exitCode, pub>>
startVars  == <<boot, loaded, monitors_dir, external_dir>>
threadVars == <<reactor, dispatch, streamed>>
vars       == <<monitors, kernelVars, loopVars, sent, last, histVars,
                clockVars, taskVars, netVars, startVars, threadVars>>

---------------------------------------------------------------------------
(* Program constants *)

FLOP_PROTECTION_COUNTER == 6

\* BaseMonitor.AGGREGATION_TIMER, in seconds; no monitor overrides it.
AGGREGATION_TIMER == 1800

\* Python's None as a reading or a threshold. Python 2 orders None below
\* every number, which is how the comparisons of alert_check treat it.
None == -1

\* None as a state string of a status source.
NoState == "None"

(* Bounds of the model *)

MaxPoints == 2     \* data points a buffer holds between two flushes
MaxRuns   == 2     \* failing-side runs fed to an alert check
MaxAlerts == 3     \* failing=true alerts a feed is followed for
MaxLate   == 2     \* quarter seconds a due aggregation tick may be late
MaxHour   == 11    \* the hour of the day at which the clock is left

---------------------------------------------------------------------------
(* The monitors: a built-in usage monitor, a built-in status monitor, an   *)
(* external usage monitor composed by load_monitors and the built-in log   *)
(* monitor.                                                                *)

Monitors == {"res", "svc", "ext", "auth"}

TYPE(m) ==
  CASE m = "svc"  -> "status"
    [] m = "auth" -> "log"
    [] OTHER      -> "usage"

External(m) == m = "ext"

SOURCES(m) ==
  CASE m = "res"  -> <<"cpu">>
    [] m = "svc"  -> <<"sshd">>
    [] m = "ext"  -> <<"load">>
    [] m = "proc" -> <<"sshd_cpu", "sshd_ram">>
    [] m = "auth" -> <<>>

\* UsageMonitor and StatusMonitor inherit IntervalMixin; LogMonitor does not.
HasNextInterval(m) == TYPE(m) \in {"usage", "status"}

SourceSet(m) == {SOURCES(m)[i] : i \in 1..Len(SOURCES(m))}

Sources == UNION {SourceSet(m) : m \in Monitors}

Usages == {70, 80, 85}
States == {"started", "stopped"}

\* What get_data may report for a source; a source may be missing from it.
Readings(m) == IF TYPE(m) = "usage" THEN Usages \cup {None}
                                      ELSE States \cup {NoState}

\* What an expected_update task may carry for a source.
Expected(m) == IF TYPE(m) = "usage" THEN {None, 0, 80, 85}
                                      ELSE States \cup {NoState}

Unset(m) == IF TYPE(m) = "usage" THEN None ELSE NoState


---------------------------------------------------------------------------
(* Messages handed to NetworkController.publish_info_message *)

Alert(m, s, failing, current, expected) ==
  [key |-> "alert", exchange |-> "agent", monitor |-> m, source |-> s,
   failing |-> failing, current |-> current, expected |-> expected]

Frame(r, m, data) ==
  [key |-> r, exchange |-> "reports", monitor |-> m, data |-> data]

Info(m, points, period) ==
  [key |-> TYPE(m), exchange |-> "agent", monitor |-> m, readings |-> points,
   period |-> period]

\* The response of a task whose handler set no status: {'id': id}
TaskComplete(id) ==
  [key |-> "task_complete", exchange |-> "agent", id |-> id]

\* The response of a task whose handler set a status
Response(routing_key, id, status) ==
  [key |-> routing_key, exchange |-> "agent", id |-> id, status |-> status]

\* The first frame of a live stream: {'data', 'monitor_id', 'interval'}
Bootstrap(r, m, points, interval) ==
  [key |-> r, exchange |-> "reports", monitor |-> m, data |-> points,
   interval |-> interval]

PingMessage == [key |-> "ping", exchange |-> "agent"]

RECURSIVE SeqOf(_)
SeqOf(S) == IF S = {} THEN <<>>
            ELSE LET x == CHOOSE y \in S : TRUE IN <<x>> \o SeqOf(S \ {x})

---------------------------------------------------------------------------
(* The clock.  A time is a number of milliseconds since midnight UTC; the  *)
(* sub-second part of a datetime is kept to the millisecond.               *)

\* datetime(..., h, mi, s, ms * 1000)
Time(h, mi, s, ms) == ((h * 60 + mi) * 60 + s) * 1000 + ms

\* now_dt.second and now_dt.microsecond (as milliseconds)
SecondOf(t) == (t \div 1000) % 60
MilliOf(t)  == t % 1000

\* send_data: time.time() less
\* timedelta(minutes=30, seconds=now_dt.second, microseconds=now_dt.microsecond)
Earliest(t) == t - (30 * 60 * 1000 + SecondOf(t) * 1000 + MilliOf(t))

\* send_data: the aggregation period a tick at t reports.  seconds is the whole
\* seconds since midnight, rounding the nearest multiple of AGGREGATION_TIMER
\* (halves go up), time_period the datetime at that second.
TimePeriod(t) ==
  LET seconds  == t \div 1000
      rounding == ((seconds + AGGREGATION_TIMER \div 2) \div AGGREGATION_TIMER)
                    * AGGREGATION_TIMER
  IN  t + (rounding - seconds) * 1000 - MilliOf(t)

\* time_period.strftime('%H%M'), the four digits read as a number
Period(t) ==
  LET time_period == TimePeriod(t)
  IN  ((time_period \div 3600000) % 24) * 100 + ((time_period \div 60000) % 60)

\* IntervalMixin.next_interval(now, interval): the time to the next multiple of
\* interval seconds within the hour, sub-second part included (milliseconds).
next_interval(t, interval) ==
  LET nsecs_passed == t % 3600000
      I            == interval * 1000
  IN  (nsecs_passed \div I) * I + I - nsecs_passed

\* start_aggregation_loop: the delay handed to reactor.callLater, int(delta)
\* seconds, as milliseconds.
AggregationDelay(m, t) ==
  IF HasNextInterval(m)
  THEN (next_interval(t, AGGREGATION_TIMER) \div 1000) * 1000
  ELSE AGGREGATION_TIMER * 1000

---------------------------------------------------------------------------
(* The alert checks.  A check works on the monitor's counters and status   *)
(*   a = [fc, pc, st, alerts, raised]                                      *)
(* and leaves the alerts it sent and whether it raised.                    *)

\* `if threshold and ...`: None and 0 are both false.
Truthy(threshold) == threshold # None /\ threshold # 0

\* `if ... expected_state and ...`
TruthyState(expected_state) == expected_state # NoState /\ expected_state # ""

\* ExternalMonitor.extra_alert_data takes no source, and the alert checks call
\* extra_alert_data(source): a TypeError in a monitor composed by load_monitors.
ExtraAlertDataRaises(m) == External(m)

\* A slip: a reading equal to the threshold does not count as exceeding it.
UsageTrendsToFailStrict(threshold, usage, source_is_failing) ==
  Truthy(threshold) /\ usage > threshold /\ ~source_is_failing

UsageTrendsToFail(threshold, usage, source_is_failing) ==
  Truthy(threshold) /\ usage >= threshold /\ ~source_is_failing

\* A slip: a reading equal to the threshold counts as below it.
UsageTrendsToPassOrEqual(threshold, usage, source_is_failing) ==
  Truthy(threshold) /\ usage <= threshold /\ source_is_failing

UsageTrendsToPass(threshold, usage, source_is_failing) ==
  Truthy(threshold) /\ usage < threshold /\ source_is_failing

\* A slip: the alert waits for one confirmation more than the flop threshold.
FlopReachedLate(counter) == counter > FLOP_PROTECTION_COUNTER

FlopReached(counter) == counter >= FLOP_PROTECTION_COUNTER

\* A slip: the failing counter is left as it is once the alert is sent.
UsageSendFailingKeepsCounter(a, s, alert) ==
  [a EXCEPT !.st[s] = TRUE, !.alerts = Append(@, alert)]

\* Lines 344-351: the failing alert is sent and the failing counter reset.
UsageSendFailing(a, s, alert) ==
  [a EXCEPT !.st[s] = TRUE, !.alerts = Append(@, alert), !.fc[s] = 0]

\* A slip: the passing alert is sent and the source is left failing.
UsageSendPassingKeepsStatus(a, s, alert) ==
  [a EXCEPT !.alerts = Append(@, alert), !.pc[s] = 0]

\* Lines 359-361: the passing alert is sent and the passing counter reset.
UsageSendPassing(a, s, alert) ==
  [a EXCEPT !.st[s] = FALSE, !.alerts = Append(@, alert), !.pc[s] = 0]

\* A slip: only the passing counter is reset.
UsageNoChangeKeepsFailing(a, s) == [a EXCEPT !.pc[s] = 0]

\* Line 364: no potential change, both counters are reset.
UsageNoChange(a, s) == [a EXCEPT !.pc[s] = 0, !.fc[s] = 0]

UsageCheckSource(m, s, ex, data, a) ==
  LET threshold         == ex[s]
      usage             == data[s]
      source_is_failing == a.st[s]
  IN  IF UsageTrendsToFail(threshold, usage, source_is_failing) THEN
        LET b == [a EXCEPT !.fc[s] = @ + 1] IN
        IF FlopReached(b.fc[s])
        THEN IF ExtraAlertDataRaises(m)
             THEN [b EXCEPT !.raised = TRUE]
             ELSE UsageSendFailing(b, s, Alert(m, s, TRUE, usage, threshold))
        ELSE b
      ELSE IF UsageTrendsToPass(threshold, usage, source_is_failing) THEN
        LET b == [a EXCEPT !.pc[s] = @ + 1] IN
        IF FlopReached(b.pc[s])
        THEN UsageSendPassing(b, s, Alert(m, s, FALSE, usage, threshold))
        ELSE b
      ELSE UsageNoChange(a, s)

StatusCheckSource(m, s, ex, data, a) ==
  LET expected_state    == ex[s]
      current_state     == data[s]
      source_is_failing == a.st[s]
  IN  IF ~source_is_failing /\ TruthyState(expected_state)
         /\ expected_state # current_state THEN
        IF ExtraAlertDataRaises(m)
        THEN [a EXCEPT !.raised = TRUE]
        ELSE [a EXCEPT !.alerts =
                Append(@, Alert(m, s, TRUE, current_state, expected_state))]
      ELSE IF source_is_failing /\ TruthyState(expected_state)
              /\ expected_state = current_state THEN
        [a EXCEPT !.alerts =
           Append(@, Alert(m, s, FALSE, current_state, expected_state))]
      ELSE a

CheckSource(m, s, ex, data, a) ==
  IF TYPE(m) = "usage" THEN UsageCheckSource(m, s, ex, data, a)
                       ELSE StatusCheckSource(m, s, ex, data, a)

RECURSIVE AlertCheckFrom(_, _, _, _, _)
AlertCheckFrom(m, i, ex, data, a) ==
  IF i > Len(SOURCES(m)) \/ a.raised THEN a
  ELSE AlertCheckFrom(m, i + 1, ex, data,
                      CheckSource(m, SOURCES(m)[i], ex, data, a))

\* monitor.alert_check(data) on the monitor's present state
alert_check(m, data) ==
  AlertCheckFrom(m, 1, expected_values[m], data,
                 [fc |-> failing_alert_counters[m],
                  pc |-> passing_alert_counters[m],
                  st |-> alert_status[m],
                  alerts |-> <<>>, raised |-> FALSE])

\* The counters and status a check leaves on the monitor.
Checked(m, a) ==
  /\ failing_alert_counters' = [failing_alert_counters EXCEPT ![m] = a.fc]
  /\ passing_alert_counters' = [passing_alert_counters EXCEPT ![m] = a.pc]
  /\ alert_status' = [alert_status EXCEPT ![m] = a.st]

---------------------------------------------------------------------------
(* The looping calls.  start_loop wraps the callback in a LoopingCall: a   *)
(* callback that raises stops its own loop, and the errback logs it.       *)

\* A slip: the error is not contained, and every loop of the kind ends with it.
LoopFailedAll(loop, m) == [n \in DOMAIN loop |-> "stopped"]

LoopFailed(loop, m) == [loop EXCEPT ![m] = "stopped"]

Logged(m, which) == errlog' = errlog \cup {<<m, which>>}

Step(op, m, outcome) == last' = [op |-> op, monitor |-> m, outcome |-> outcome]

\* The run a monitor's polling loop calls.  The class load_monitors composes for
\* an external monitor lists ExternalMonitor and the usage or status base before
\* PollingMixin, so its run is BaseMonitor.run, which does nothing.  The log
\* monitor has no PollingMixin either.
RunIsPolling(m) == ~External(m) /\ TYPE(m) # "log"

\* A data point: a reading for every source (None for a source get_data left out).
DataOf(m) == [SourceSet(m) -> Readings(m)]

\* A status monitor's get_data lists the services by running a command and
\* parsing what it prints: a command that fails and prints nothing leaves the
\* dictionary empty, and get_data returns it.
CommandBased(m) == TYPE(m) = "status"

EmptyData(m) == [s \in SourceSet(m) |-> Unset(m)]

PollOutcome(m, data) ==
  IF CommandBased(m) /\ data = EmptyData(m) THEN "no_output" ELSE "ok"

\* BaseMonitor.store_data_point: the point is stored with time.time().
store_data_point(m, data) ==
  /\ data_points' = [data_points EXCEPT ![m] = Append(@, data)]
  /\ timestamps' = [timestamps EXCEPT ![m] = Append(@, now)]

\* The frames a poll sends to the monitor's live streams, one per sink.
Fanout(m, data) ==
  [i \in 1..Len(livestreams[m]) |-> Frame(livestreams[m][i], m, data)]

---------------------------------------------------------------------------
(* A tick of a monitor's polling loop *)

\* BaseMonitor.run
PollBaseRun(m) ==
  /\ m \in monitors /\ pollLoop[m] = "running"
  /\ ~RunIsPolling(m)
  /\ sent' = <<>>
  /\ Step("poll", m, "noop")
  /\ UNCHANGED <<monitors, kernelVars, loopVars, histVars, threadVars, clockVars, taskVars, netVars, startVars>>

\* PollingMixin.run when get_data raises
PollCollectRaises(m) ==
  /\ m \in monitors /\ pollLoop[m] = "running"
  /\ RunIsPolling(m)
  /\ pollLoop' = LoopFailed(pollLoop, m)
  /\ Logged(m, "poll")
  /\ sent' = <<>>
  /\ Step("poll", m, "collect_raised")
  /\ UNCHANGED <<monitors, kernelVars, aggLoop, pingLoop, histVars, threadVars, clockVars,
                 taskVars, netVars, startVars>>

\* PollingMixin.run when get_data returns data
PollRun(m, data) ==
  /\ m \in monitors /\ pollLoop[m] = "running"
  /\ RunIsPolling(m)
  /\ Len(data_points[m]) < MaxPoints
  /\ LET a == alert_check(m, data) IN
       /\ store_data_point(m, data)
       /\ Checked(m, a)
       /\ IF a.raised
          THEN /\ pollLoop' = LoopFailed(pollLoop, m)
               /\ Logged(m, "poll")
               /\ sent' = a.alerts
               /\ Step("poll", m, "check_raised")
          ELSE /\ UNCHANGED <<pollLoop, errlog>>
               /\ sent' = a.alerts \o Fanout(m, data)
               /\ Step("poll", m, PollOutcome(m, data))
  /\ UNCHANGED <<monitors, expected_values, livestreams, aggLoop, pingLoop,
                 histVars, threadVars, now, aggDue, taskVars, netVars, startVars>>

---------------------------------------------------------------------------
(* A tick of a monitor's aggregation loop: BaseMonitor.send_data *)

\* A slip: a data point is merged however old it is.
merge_data_all(m, earliest) == data_points[m]

\* BaseMonitor.merge_data(earliest): the data points recorded at earliest or
\* later, in the order they were stored.
merge_data(m, earliest) ==
  LET kept == SelectSeq([i \in 1..Len(data_points[m]) |-> i],
                        LAMBDA i : timestamps[m][i] >= earliest)
  IN  [k \in 1..Len(kept) |-> data_points[m][kept[k]]]

\* The LoopingCall calls send_data when its time has come.  A schedule of None
\* leaves the time of the call open.
Due(m) == aggDue[m] = None \/ now >= aggDue[m]

\* The LoopingCall's next call comes AGGREGATION_TIMER seconds after this one
\* was due.
Rescheduled(m) ==
  [aggDue EXCEPT ![m] = IF @ = None THEN @ ELSE @ + AGGREGATION_TIMER * 1000]

\* data.pop('timestamp') raises KeyError when no data point was merged.
SendDataRaises(m) ==
  /\ m \in monitors /\ aggLoop[m] = "running" /\ Due(m)
  /\ merge_data(m, Earliest(now)) = <<>>
  /\ aggLoop' = LoopFailed(aggLoop, m)
  /\ Logged(m, "aggregation")
  /\ sent' = <<>>
  /\ Step("send_data", m, "send_raised")
  /\ UNCHANGED <<monitors, kernelVars, pollLoop, pingLoop, histVars, threadVars, clockVars,
                 taskVars, netVars, startVars>>

\* A slip: the buffer is left as it is after the publish.
KeepBuffer(buffer) == buffer

\* self.data_points = []
ClearBuffer(buffer) == <<>>

SendData(m) ==
  /\ m \in monitors /\ aggLoop[m] = "running" /\ Due(m)
  /\ merge_data(m, Earliest(now)) # <<>>
  /\ sent' = <<Info(m, merge_data(m, Earliest(now)), Period(now))>>
  /\ data_points' = [data_points EXCEPT ![m] = ClearBuffer(@)]
  /\ timestamps' = [timestamps EXCEPT ![m] = ClearBuffer(@)]
  /\ aggDue' = Rescheduled(m)
  /\ Step("send_data", m,
          IF Len(merge_data(m, Earliest(now))) = Len(data_points[m])
          THEN "ok" ELSE "ok_some_too_old")
  /\ UNCHANGED <<monitors, expected_values, failing_alert_counters,
                 passing_alert_counters, alert_status, livestreams, loopVars,
                 histVars, threadVars, now, taskVars, netVars, startVars>>

---------------------------------------------------------------------------
(* The keepalive: NetworkController.ping_pong *)

Ping ==
  /\ pingLoop = "running"
  /\ sent' = <<PingMessage>>
  /\ Step("ping", "", "ok")
  /\ UNCHANGED <<monitors, kernelVars, loopVars, histVars, threadVars, clockVars, taskVars, netVars, startVars>>

---------------------------------------------------------------------------
(* The tasks: NetworkController.run_task *)

NoId == "null"
TaskIds == {NoId, "t1"}

\* The routing keys a live_data task may name.
Keys == {"r1", "r2"}

\* A uid no monitor has.
Unknown == "zzz"

\* The parsed task: 'id' and the fields of 'command' (a field a command does
\* not carry is empty).
Task(id, name, monitor, action, key, item, expected) ==
  [id |-> id, name |-> name, monitor |-> monitor, action |-> action,
   key |-> key, item |-> item, expected |-> expected]

ExpectedUpdate(id, uid, given) ==
  Task(id, "expected_update", uid, "", "", "", given)
LiveData(id, uid, action, key) ==
  Task(id, "live_data", uid, action, key, "", <<>>)
Refresh(id, item) == Task(id, "refresh", "", "", "", item, <<>>)
Com(id)           == Task(id, "com", "", "get", "", "item", <<>>)
Other(id)         == Task(id, "reboot", "", "", "", "", <<>>)

\* A slip: the given mapping is not taken over.
UpdateNothing(old, given) == old

\* dict.update: the given keys are overwritten or added, the others kept.
Update(old, given) ==
  [s \in DOMAIN old \cup DOMAIN given |->
     IF s \in DOMAIN given THEN given[s] ELSE old[s]]

\* monitor.livestreams, a dict of routing key to sink, as the sequence of its
\* keys: a sink publishes under the key it is stored at.
HasSink(streams, key) == \E i \in 1..Len(streams) : streams[i] = key

\* A slip: a start adds a sink whether the key has one or not.
AddSink(streams, key) == Append(streams, key)

\* livestreams[stream_routing_key] = live_publish
SetSink(streams, key) ==
  IF HasSink(streams, key) THEN streams ELSE Append(streams, key)

\* A slip: the sink is kept.
KeepSink(streams, key) == streams

\* del(livestreams[stream_routing_key])
DelSink(streams, key) == SelectSeq(streams, LAMBDA k : k # key)

\* The functions sysinfo has a pull_<item> for (of the items a task may name).
PullItems == {"all", "os"}
Items == PullItems \cup {"bogus"}

RefreshKey(item) ==
  CASE item = "all" -> "user.host.all"
    [] item = "os"  -> "user.host.os"
    [] OTHER        -> "user.host.bogus"

\* BaseMonitor.MONITOR_TIMER and the monitors' own
MONITOR_TIMER(m) ==
  CASE m = "res"  -> 10
    [] m = "auth" -> 1
    [] OTHER      -> 30

\* What the `data` of run_task is when the handler is through: the response
\* {'id': ..., 'status': ...} it began with, or, after a live_data start, the
\* merged data points the name was bound to anew (a defaultdict, whose 'id' is
\* an empty list once it is asked for).
EmptyList == "[]"

\* A slip: the response is published whether the task has an id or not.
PublishesAlways(id, routing_key) == TRUE

\* Line 474: data['id'] is not None or routing_key != 'task_complete'
Publishes(id, routing_key) == id # NoId \/ routing_key # "task_complete"

\* The handler of a parsed task: what it changes and publishes.
run_task(t) ==
  /\ CASE t.name = "refresh" /\ t.item \in PullItems ->
            /\ sent' = IF Publishes(t.id, RefreshKey(t.item))
                       THEN <<Response(RefreshKey(t.item), t.id, "SUCCESS")>>
                       ELSE <<>>
            /\ Step("refresh", "", "ok")
            /\ UNCHANGED <<expected_values, livestreams>>
       [] t.name = "refresh" /\ t.item \notin PullItems ->
            \* getattr(sysinfo, 'pull_<item>') raises AttributeError
            /\ sent' = <<>>
            /\ Step("refresh", "", "task_raised")
            /\ UNCHANGED <<expected_values, livestreams>>
       [] t.name = "com" ->
            \* not a Windows system
            /\ sent' = IF Publishes(t.id, "task_complete")
                       THEN <<Response("task_complete", t.id, "FAILURE")>>
                       ELSE <<>>
            /\ Step("com", "", "failure")
            /\ UNCHANGED <<expected_values, livestreams>>
       [] t.name = "expected_update" ->
            /\ IF t.monitor \in monitors
               THEN expected_values' =
                      [expected_values EXCEPT ![t.monitor] = Update(@, t.expected)]
               ELSE UNCHANGED expected_values
            /\ sent' = IF Publishes(t.id, "task_complete")
                       THEN <<TaskComplete(t.id)>> ELSE <<>>
            /\ Step("expected_update", t.monitor, "ok")
            /\ UNCHANGED livestreams
       [] t.name = "live_data" /\ t.monitor \in monitors /\ t.action = "start" ->
            LET data == merge_data(t.monitor, 0) IN
            /\ livestreams' =
                 [livestreams EXCEPT ![t.monitor] = SetSink(@, t.key)]
            /\ sent' = <<Bootstrap(t.key, t.monitor, data,
                                   MONITOR_TIMER(t.monitor))>>
                       \o (IF Publishes(EmptyList, "task_complete")
                           THEN <<[key |-> "task_complete", exchange |-> "agent",
                                   id |-> EmptyList, readings |-> data]>>
                           ELSE <<>>)
            /\ Step("live_data", t.monitor,
                    IF HasSink(livestreams[t.monitor], t.key)
                    THEN "start_again" ELSE "start")
            /\ UNCHANGED expected_values
       [] t.name = "live_data" /\ t.monitor \in monitors /\ t.action = "stop" ->
            /\ livestreams' =
                 [livestreams EXCEPT ![t.monitor] = DelSink(@, t.key)]
            /\ sent' = IF Publishes(t.id, "task_complete")
                       THEN <<TaskComplete(t.id)>> ELSE <<>>
            /\ Step("live_data", t.monitor,
                    IF HasSink(livestreams[t.monitor], t.key)
                    THEN "stop" ELSE "not_streaming")
            /\ UNCHANGED expected_values
       [] t.name = "live_data"
            /\ ~(t.monitor \in monitors /\ t.action \in {"start", "stop"}) ->
            /\ sent' = IF Publishes(t.id, "task_complete")
                       THEN <<TaskComplete(t.id)>> ELSE <<>>
            /\ Step("live_data", t.monitor,
                    IF t.monitor \in monitors THEN "no_action" ELSE "not_enabled")
            /\ UNCHANGED <<expected_values, livestreams>>
       [] OTHER ->
            /\ sent' = IF Publishes(t.id, "task_complete")
                       THEN <<Response("task_complete", t.id, "NOT_IMPLEMENTED")>>
                       ELSE <<>>
            /\ Step(t.name, "", "not_implemented")
            /\ UNCHANGED <<expected_values, livestreams>>
  /\ UNCHANGED <<monitors, data_points, failing_alert_counters,
                 passing_alert_counters, alert_status, loopVars, histVars, threadVars,
                 clockVars>>

\* task_callback with a body that parses, taken in one step
TaskExpectedUpdate(id, uid, given) ==
  /\ run_task(ExpectedUpdate(id, uid, given))
  /\ UNCHANGED <<taskVars, netVars, startVars>>

TaskLiveData(id, uid, action, key) ==
  /\ run_task(LiveData(id, uid, action, key))
  /\ UNCHANGED <<taskVars, netVars, startVars>>

\* The mappings an expected_update task may carry for a monitor.
Given(uid) == UNION {[S -> Expected(uid)] : S \in SUBSET SourceSet(uid)}

---------------------------------------------------------------------------
(* The agent with one monitor installed *)

InitKernel ==
  /\ expected_values = [m \in Monitors |-> [s \in SourceSet(m) |-> Unset(m)]]
  /\ data_points = [m \in Monitors |-> <<>>]
  /\ failing_alert_counters = [m \in Monitors |-> [s \in SourceSet(m) |-> 0]]
  /\ passing_alert_counters = [m \in Monitors |-> [s \in SourceSet(m) |-> 0]]
  /\ alert_status = [m \in Monitors |-> [s \in SourceSet(m) |-> FALSE]]
  /\ livestreams = [m \in Monitors |-> <<>>]

InitLoops ==
  /\ pollLoop = [m \in Monitors |-> IF m \in monitors THEN "running" ELSE "none"]
  /\ aggLoop  = [m \in Monitors |-> IF m \in monitors THEN "running" ELSE "none"]
  /\ pingLoop = "running"
  /\ errlog = {}
  /\ sent = <<>>
  /\ last = [op |-> "init", monitor |-> "", outcome |-> ""]

\* The message task_callback is working on: its body, how far the callback
\* has come with it, whether the broker has its acknowledgement and whether the
\* broker has delivered it before.
Delivery(body, pos, acked, redelivered) ==
  [body |-> body, pos |-> pos, acked |-> acked, redelivered |-> redelivered]

NoTask == Task(NoId, "", "", "", "", "", <<>>)

\* A body that is the JSON of a task, and one that is no JSON at all.
Body(t) == [valid |-> TRUE, task |-> t]
Garbage == [valid |-> FALSE, task |-> NoTask]

NoDelivery == Delivery(Garbage, "none", FALSE, FALSE)

\* The response of the server to the credentials request: its status and the
\* fields of its JSON content that are there and not null.
Resp(status, fields) == [status |-> status, fields |-> fields]
NoResponse == Resp(0, {})

\* The call of request_with_backoff in progress: where it stands, the attempt
\* number it was last called with, the delay it sleeps (in milliseconds) and
\* the response it returned.
Http(pos, attempt, timer, resp) ==
  [pos |-> pos, attempt |-> attempt, timer |-> timer, resp |-> resp]
HttpIdle == Http("idle", 0, 0, NoResponse)

\* The call of publish_info_message in progress: its routing key, its retry
\* argument and the times producer.publish was called for the payload.
Pub(pos, key, retry, attempts) ==
  [pos |-> pos, key |-> key, retry |-> retry, attempts |-> attempts]
PubIdle == Pub("idle", "", FALSE, 0)

\* sys.exit was not called.
NoExit == None

\* A field a config does not have (config.get gives None, which is falsy as
\* an empty value is).
Missing == "<missing>"

\* A 'type' that is a JSON number.
NotAString == "<number>"

\* An external monitor config: the fields load_monitors and
\* ExternalMonitor.__init__ read.  'states' is missing, the empty list or a
\* list of states; 'importance' is given with an integer value or not given.
Config(type, name, uid, get_data, sources, default_type, states, importance) ==
  [type |-> type, name |-> name, uid |-> uid, get_data |-> get_data,
   sources |-> sources, default_type |-> default_type, states |-> states,
   importance |-> importance]

NoImportance == [given |-> FALSE, value |-> 0]
Importance(v) == [given |-> TRUE, value |-> v]

\* The config of the external monitor the agent runs with.
StandardConfig ==
  Config("usage", "load", "ext", "cmd", "given", "percent", Missing, NoImportance)

\* A class of the monitors directory: its uid and whether importing its module
\* and instantiating it go through.
Class(uid, loads) == [uid |-> uid, loads |-> loads]

\* What the startup message tells of a loaded monitor.
Descriptor(uid, type, importance, external) ==
  [uid |-> uid, type |-> type, importance |-> importance, external |-> external]

\* BaseMonitor.IMPORTANCE
IMPORTANCE == 5

\* A monitor class of the monitors directory, instantiated by load_monitors,
\* and the monitor an external config of the standard shape is loaded as.
Standard(m) == Descriptor(m, TYPE(m), IMPORTANCE, External(m))

\* The order load_monitors loads the monitors in: the classes of the monitors
\* directory, then the external configs.
LoadOrder == <<"res", "svc", "auth", "ext">>

\* The steps of RealityAuditor.run and of the two calls it schedules.
RunSteps == <<"ensure_internet_connection", "load_monitors", "initialize_amqp",
              "start_monitor", "schedule", "startup", "ping_loop">>

\* A thread that is between two calls.
Idle == [op |-> "idle"]

\* A live stream nothing was sent to: no start was handled for its key, and no
\* stop after a start, and no data point went out under it.
NoStream == [starts |-> 0, stopped |-> FALSE, points |-> <<>>]

\* The agent is up: run has gone through, the connection is open and the
\* drain worker consumes the task queue; nothing is being requested or
\* published, and neither thread is in the middle of a call.
InitUp ==
  /\ running = TRUE /\ online = TRUE
  /\ reactor = Idle /\ dispatch = Idle
  /\ streamed = [r \in Keys |-> NoStream]
  /\ http = HttpIdle /\ pub = PubIdle
  /\ amqp = "open" /\ drain = "draining" /\ exitCode = NoExit
  /\ boot = RunSteps
  /\ loaded = [i \in 1..Len(SelectSeq(LoadOrder, LAMBDA m : m \in monitors)) |->
                Standard(SelectSeq(LoadOrder, LAMBDA m : m \in monitors)[i])]
  /\ monitors_dir =
       [i \in 1..Len(SelectSeq(LoadOrder, LAMBDA m : m \in monitors \ {"ext"})) |->
          Class(SelectSeq(LoadOrder, LAMBDA m : m \in monitors \ {"ext"})[i], TRUE)]
  /\ external_dir = IF "ext" \in monitors THEN <<StandardConfig>> ELSE <<>>

\* The clock stands at a time between two aggregation ticks, whose times are
\* left open, and no task is being delivered.
InitUntimed ==
  /\ now = Time(10, 17, 5, 0)
  /\ timestamps = [m \in Monitors |-> <<>>]
  /\ aggDue = [m \in Monitors |-> None]
  /\ delivery = NoDelivery /\ consuming = TRUE

Off == <<0>>

InitHist ==
  /\ hist = Off /\ badRun = 0 /\ lowRun = 0 /\ runStart = FALSE
  /\ nTrue = 0 /\ nRuns = 0 /\ nQual = 0

Init ==
  /\ \E m \in Monitors : monitors = {m}
  /\ InitKernel /\ InitLoops /\ InitHist /\ InitUntimed /\ InitUp

Next ==
  \/ \E m \in Monitors : PollBaseRun(m)
  \/ \E m \in Monitors : PollCollectRaises(m)
  \/ \E m \in Monitors : \E data \in DataOf(m) : PollRun(m, data)
  \/ \E m \in Monitors : SendDataRaises(m)
  \/ \E m \in Monitors : SendData(m)
  \/ Ping
  \/ \E id \in TaskIds : \E uid \in Monitors : \E given \in Given(uid) :
       TaskExpectedUpdate(id, uid, given)

Spec == Init /\ [][Next]_vars

---------------------------------------------------------------------------
(* Readings fed to the alert check of a monitor whose expected value stays *)
(* as it is, with the history of the feed.                                 *)

FeedUsages == {70, 80, 81, 82, 85, 88, 90, 95}

FeedReadings(m) == IF TYPE(m) = "usage" THEN FeedUsages ELSE States
FeedExpected(m) == IF TYPE(m) = "usage" THEN {80, 85} ELSE States

S1 == <<85, 90, 82, 88, 95, 81>>
S2 == <<85, 90, 70, 85, 90, 70>>

IsPrefix(h, script) == Len(h) <= Len(script) /\ h = SubSeq(script, 1, Len(h))

Follow(h, u) ==
  IF h # Off /\ (IsPrefix(Append(h, u), S1) \/ IsPrefix(Append(h, u), S2))
  THEN Append(h, u) ELSE Off

Min(x, y) == IF x < y THEN x ELSE y

\* The reading is on the failing side of the expected value.
FailingSide(m, u, expected) ==
  IF TYPE(m) = "usage" THEN u >= expected ELSE u # expected

FailingAlerts(alerts) ==
  Cardinality({i \in 1..Len(alerts) : alerts[i].failing})

\* monitor.alert_check(data), fed with a reading for the monitor's source
Feed(m, u) ==
  /\ m \in monitors
  /\ nRuns < MaxRuns /\ nTrue < MaxAlerts
  /\ LET s    == SOURCES(m)[1]
         data == [x \in SourceSet(m) |-> u]
         a    == alert_check(m, data)
         bad  == FailingSide(m, u, expected_values[m][s])
         run  == IF bad THEN Min(badRun + 1, FLOP_PROTECTION_COUNTER + 1) ELSE 0
         from == IF bad /\ badRun = 0 THEN alert_status[m][s] ELSE runStart
     IN  /\ Checked(m, a)
         /\ sent' = a.alerts
         /\ Step("alert_check", m, IF a.raised THEN "check_raised" ELSE "ok")
         /\ hist' = Follow(hist, u)
         /\ badRun' = run
         /\ lowRun' = IF bad THEN 0
                      ELSE Min(lowRun + 1, FLOP_PROTECTION_COUNTER + 1)
         /\ runStart' = from
         /\ nTrue' = nTrue + FailingAlerts(a.alerts)
         /\ nRuns' = IF run = FLOP_PROTECTION_COUNTER THEN nRuns + 1 ELSE nRuns
         /\ nQual' = IF run = FLOP_PROTECTION_COUNTER /\ ~from
                     THEN nQual + 1 ELSE nQual
  /\ UNCHANGED <<monitors, expected_values, data_points, livestreams, loopVars,
                 clockVars, taskVars, netVars, startVars, threadVars>>

InitFeed ==
  /\ \E m \in {"res", "svc"} :
       /\ monitors = {m}
       /\ \E e \in FeedExpected(m) :
            expected_values =
              [n \in Monitors |-> [s \in SourceSet(n) |->
                                     IF n = m THEN e ELSE Unset(n)]]
       /\ hist = IF m = "res" THEN <<>> ELSE Off
  /\ data_points = [m \in Monitors |-> <<>>]
  /\ failing_alert_counters = [m \in Monitors |-> [s \in SourceSet(m) |-> 0]]
  /\ passing_alert_counters = [m \in Monitors |-> [s \in SourceSet(m) |-> 0]]
  /\ alert_status = [m \in Monitors |-> [s \in SourceSet(m) |-> FALSE]]
  /\ livestreams = [m \in Monitors |-> <<>>]
  /\ InitLoops /\ InitUntimed /\ InitUp
  /\ badRun = 0 /\ lowRun = 0 /\ runStart = FALSE
  /\ nTrue = 0 /\ nRuns = 0 /\ nQual = 0

NextFeed == \E m \in Monitors : \E u \in FeedReadings(m) : Feed(m, u)

SpecFeed == InitFeed /\ [][NextFeed]_vars

---------------------------------------------------------------------------
(* The agent with the resource, service and external monitors installed    *)
(* and no expected value set: the loops of the monitors and the keepalive   *)
(* side by side.  The log monitor, whose only loop is the aggregation one,  *)
(* is followed on its own in Spec.                                          *)

InitAll ==
  /\ monitors = Monitors \ {"auth"}
  /\ InitKernel /\ InitLoops /\ InitHist /\ InitUntimed /\ InitUp

NextLoops ==
  \/ \E m \in Monitors : PollBaseRun(m)
  \/ \E m \in Monitors : PollCollectRaises(m)
  \/ \E m \in Monitors : \E data \in DataOf(m) : PollRun(m, data)
  \/ \E m \in Monitors : SendDataRaises(m)
  \/ \E m \in Monitors : SendData(m)
  \/ Ping

SpecLoops == InitAll /\ [][NextLoops]_vars

---------------------------------------------------------------------------
(* The agent with one monitor installed and no expected value set: its     *)
(* loops and the live_data tasks.                                          *)

Actions == {"start", "stop", "pause"}

NextLive ==
  \/ \E m \in Monitors : PollBaseRun(m)
  \/ \E m \in Monitors : PollCollectRaises(m)
  \/ \E m \in Monitors : \E data \in DataOf(m) : PollRun(m, data)
  \/ \E m \in Monitors : SendDataRaises(m)
  \/ \E m \in Monitors : SendData(m)
  \/ \E id \in TaskIds : \E uid \in Monitors : \E action \in Actions :
       \E key \in Keys : TaskLiveData(id, uid, action, key)

SpecLive == Init /\ [][NextLive]_vars

---------------------------------------------------------------------------
(* The task queue: the broker delivers a message, task_callback            *)
(* acknowledges it, parses its body and hands the task to run_task.  The   *)
(* agent may be killed at any point of the callback; the broker then       *)
(* delivers again what was not acknowledged.                               *)

\* The tasks the server sends (the resource monitor is the one installed).
Tasks ==
  UNION {
    {ExpectedUpdate(id, uid, [s \in {"cpu"} |-> 85]) : uid \in {"res", Unknown}}
    \cup {LiveData(id, uid, action, "r1") :
            uid \in {"res", Unknown}, action \in Actions}
    \cup {Refresh(id, item) : item \in Items}
    \cup {Com(id), Other(id)} : id \in TaskIds }

Bodies == {Garbage} \cup {Body(t) : t \in Tasks}

InitTasks ==
  /\ monitors = {"res"}
  /\ InitKernel /\ InitLoops /\ InitHist /\ InitUntimed /\ InitUp

\* kombu calls task_callback(body, message) with a message of the queue.
TaskDelivered(body) ==
  /\ consuming /\ delivery = NoDelivery
  /\ delivery' = Delivery(body, "received", FALSE, FALSE)
  /\ sent' = <<>>
  /\ Step("task_callback", "", "received")
  /\ UNCHANGED <<monitors, kernelVars, loopVars, histVars, threadVars, clockVars, consuming,
                 netVars, startVars>>

\* The broker delivers again a message it has no acknowledgement of.
TaskRedelivered ==
  /\ consuming /\ delivery.pos = "queued"
  /\ delivery' = [delivery EXCEPT !.pos = "received", !.redelivered = TRUE]
  /\ sent' = <<>>
  /\ Step("task_callback", "", "received")
  /\ UNCHANGED <<monitors, kernelVars, loopVars, histVars, threadVars, clockVars, consuming,
                 netVars, startVars>>

\* A slip: the acknowledgement is left for later.
AckLater(d) == d

\* message.ack()
Ack(d) == [d EXCEPT !.acked = TRUE]

\* Line 358: the first thing task_callback does with the message
TaskAck ==
  /\ delivery.pos = "received"
  /\ delivery' = [Ack(delivery) EXCEPT !.pos = "acked"]
  /\ sent' = <<>>
  /\ Step("task_callback", "", "acked")
  /\ UNCHANGED <<monitors, kernelVars, loopVars, histVars, threadVars, clockVars, consuming,
                 netVars, startVars>>

\* A slip: a body that does not parse is handled as a task all the same.
ParsedAnyway(body) == TRUE

\* json.loads(body) returns; it raises ValueError for a body that is no JSON.
Parses(body) == body.valid

\* Lines 360-365: the body parses and run_task is called with the task, or the
\* ValueError is logged and the callback returns.
TaskParse ==
  /\ delivery.pos = "acked"
  /\ IF Parses(delivery.body)
     THEN /\ delivery' = [delivery EXCEPT !.pos = "parsed"]
          /\ Step("task_callback", "", "parsed")
     ELSE /\ delivery' = NoDelivery
          /\ Step("task_callback", "", "dropped")
  /\ sent' = <<>>
  /\ UNCHANGED <<monitors, kernelVars, loopVars, histVars, threadVars, clockVars, consuming,
                 netVars, startVars>>

\* run_task on the parsed task; when it returns or raises, task_callback is
\* through with the message.
TaskRun ==
  /\ delivery.pos = "parsed"
  /\ run_task(delivery.body.task)
  /\ delivery' = NoDelivery
  /\ UNCHANGED <<consuming, netVars, startVars>>

\* The agent is killed while task_callback is working on a message: what the
\* monitors held in memory is gone, and the broker keeps the message for another
\* delivery unless it has its acknowledgement.
Killed ==
  /\ consuming /\ delivery.pos \in {"received", "acked", "parsed"}
  /\ consuming' = FALSE
  /\ delivery' = IF delivery.acked THEN NoDelivery
                 ELSE [delivery EXCEPT !.pos = "queued"]
  /\ expected_values' = [m \in Monitors |-> [s \in SourceSet(m) |-> Unset(m)]]
  /\ livestreams' = [m \in Monitors |-> <<>>]
  /\ sent' = <<>>
  /\ Step("killed", "", delivery.pos)
  /\ UNCHANGED <<monitors, data_points, failing_alert_counters,
                 passing_alert_counters, alert_status, loopVars, histVars, threadVars,
                 clockVars, netVars, startVars>>

\* The agent is started again and consumes the task queue.
Restarted ==
  /\ ~consuming
  /\ consuming' = TRUE
  /\ sent' = <<>>
  /\ Step("restarted", "", "ok")
  /\ UNCHANGED <<monitors, kernelVars, loopVars, histVars, threadVars, clockVars, delivery,
                 netVars, startVars>>

NextTasks ==
  \/ \E body \in Bodies : TaskDelivered(body)
  \/ TaskRedelivered
  \/ TaskAck
  \/ TaskParse
  \/ TaskRun
  \/ Killed
  \/ Restarted

SpecTasks == InitTasks /\ [][NextTasks]_vars

---------------------------------------------------------------------------
(* A monitor started at some time of the day, and the clock: the ticks of  *)
(* its aggregation loop come when they are due or a little late, and polls *)
(* fall where the clock stands.                                            *)

StartTimes ==
  {Time(10, mi, sec, ms) : mi \in {0, 17, 29, 59}, sec \in {0, 5, 59},
                          ms \in {0, 500, 999}}

InitClock ==
  /\ monitors = {}
  /\ InitKernel /\ InitLoops /\ InitHist
  /\ now \in StartTimes
  /\ timestamps = [m \in Monitors |-> <<>>]
  /\ aggDue = [m \in Monitors |-> None]
  /\ delivery = NoDelivery /\ consuming = TRUE
  /\ InitUp

\* RealityAuditor.start_monitor: the monitor is registered, its polling loop
\* started (its first call is the loop's first tick) and the first call of
\* send_data scheduled by start_aggregation_loop.
StartMonitor(m) ==
  /\ monitors = {}
  /\ monitors' = {m}
  /\ pollLoop' = [pollLoop EXCEPT ![m] = "running"]
  /\ aggLoop' = [aggLoop EXCEPT ![m] = "running"]
  /\ aggDue' = [aggDue EXCEPT ![m] = now + AggregationDelay(m, now)]
  /\ sent' = <<>>
  /\ Step("start", m, "ok")
  /\ UNCHANGED <<kernelVars, pingLoop, errlog, histVars, threadVars, now, timestamps,
                 taskVars, netVars, startVars>>

\* Time passes until the next call of send_data is due.
AwaitTick(m) ==
  /\ m \in monitors /\ aggLoop[m] = "running"
  /\ now < aggDue[m] /\ aggDue[m] <= Time(MaxHour, 0, 0, 0)
  /\ now' = aggDue[m]
  /\ sent' = <<>>
  /\ Step("clock", m, "due")
  /\ UNCHANGED <<monitors, kernelVars, loopVars, histVars, threadVars, timestamps, aggDue,
                 taskVars, netVars, startVars>>

\* The reactor is busy and the call that is due waits a quarter second more.
Late(m) ==
  /\ m \in monitors /\ aggLoop[m] = "running"
  /\ now >= aggDue[m] /\ now < aggDue[m] + MaxLate * 250
  /\ now' = now + 250
  /\ sent' = <<>>
  /\ Step("clock", m, "late")
  /\ UNCHANGED <<monitors, kernelVars, loopVars, histVars, threadVars, timestamps, aggDue,
                 taskVars, netVars, startVars>>

\* The reading the polls of the timed monitor report.
Steady(m) == [s \in SourceSet(m) |-> IF TYPE(m) = "usage" THEN 70 ELSE "started"]

NextClock ==
  \/ \E m \in Monitors : StartMonitor(m)
  \/ \E m \in Monitors : AwaitTick(m)
  \/ \E m \in Monitors : Late(m)
  \/ \E m \in Monitors : PollBaseRun(m)
  \/ \E m \in Monitors : PollRun(m, Steady(m))
  \/ \E m \in Monitors : SendDataRaises(m)
  \/ \E m \in Monitors : SendData(m)

SpecClock == InitClock /\ [][NextClock]_vars

---------------------------------------------------------------------------
(* Loading the monitors: RealityAuditor.load_monitors and                  *)
(* ExternalMonitor.__init__                                                *)

\* str.lower() of the types a config may name
Lower(type) == IF type = "Status" THEN "status" ELSE type

\* A slip: the importance of the config is taken as it is.
Unclamped(value) == value

\* Line 179: max(1, min(value, 10))
Clamp(value) ==
  LET low == IF value < 10 THEN value ELSE 10
  IN  IF low > 1 THEN low ELSE 1

\* kwargs.pop('importance', 5), clamped
ImportanceOf(c) ==
  IF c.importance.given THEN Clamp(c.importance.value) ELSE Clamp(IMPORTANCE)

\* ExternalMonitor.__init__ with the config as keyword arguments: a status
\* monitor whose 'states' is no list raises TypeError (a missing 'states' is
\* None); every other config that load_monitors lets through is instantiated.
InitRaises(c) == Lower(c.type) = "status" /\ c.states = Missing

\* Lines 230-231: type, name, uid and get_data are there and not empty
Required(c) ==
  c.type # Missing /\ c.name # Missing /\ c.uid # Missing /\ c.get_data # Missing

\* One turn of the loop over the configs (lines 230-257): the config is
\* skipped with a warning, its monitor is instantiated and appended, its
\* instantiation fails and is logged, or the turn raises: 'type'.lower() of a
\* type that is no string is outside every try.  A status config with no
\* states is warned about and then instantiated all the same (line 243 has no
\* continue).
LoadExternal(c) ==
  CASE ~Required(c)                 -> "skipped"
    [] c.type = NotAString          -> "raised"
    [] Lower(c.type) = "usage" ->
         IF c.sources = Missing /\ c.default_type = Missing
         THEN "skipped" ELSE "added"
    [] Lower(c.type) = "status" ->
         IF InitRaises(c) THEN "failed" ELSE "added"
    [] OTHER                        -> "skipped"

\* The monitor a config is loaded as.
Loaded(c) == Descriptor(c.uid, Lower(c.type), ImportanceOf(c), TRUE)

\* The configs of a directory up to the first one whose turn raises.
RECURSIVE Reached(_)
Reached(dir) ==
  IF dir = <<>> THEN <<>>
  ELSE IF LoadExternal(Head(dir)) = "raised" THEN <<Head(dir)>>
  ELSE <<Head(dir)>> \o Reached(Tail(dir))

LoadRaises(dir) == \E i \in 1..Len(dir) : LoadExternal(dir[i]) = "raised"

\* self.monitors when load_monitors is through, or when it raises: the classes
\* of the monitors directory that load, then the configs that do.
load_monitors(classes, dir) ==
  LET built == SelectSeq(classes, LAMBDA k : k.loads)
      added == SelectSeq(Reached(dir), LAMBDA c : LoadExternal(c) = "added")
  IN  [i \in 1..Len(built) |-> Standard(built[i].uid)]
      \o [i \in 1..Len(added) |-> Loaded(added[i])]

\* Line 125 of run.  An exception load_monitors raises is caught nowhere and
\* ends the process.
RunLoadMonitors ==
  /\ exitCode = NoExit /\ boot = <<"ensure_internet_connection">>
  /\ loaded' = load_monitors(monitors_dir, external_dir)
  /\ IF LoadRaises(external_dir)
     THEN /\ exitCode' = 1
          /\ boot' = boot
          /\ Step("load_monitors", "", "load_raised")
     ELSE /\ exitCode' = NoExit
          /\ boot' = Append(boot, "load_monitors")
          /\ Step("load_monitors", "", "ok")
  /\ sent' = <<>>
  /\ UNCHANGED <<monitors, kernelVars, loopVars, histVars, threadVars, clockVars, taskVars,
                 running, online, http, amqp, drain, pub, monitors_dir,
                 external_dir>>

---------------------------------------------------------------------------
(* The start of the agent: RealityAuditor.run, the credentials request of  *)
(* NetworkController.initialize_amqp and the backoff of                    *)
(* request_with_backoff.                                                   *)

MAX_BACKOFF_MULTIPLE == 10

\* random.randint(0, 1000) gives every integer from 0 to 1000, both included;
\* these are the values followed.
Jitters == {0, 1, 500, 999, 1000}

RECURSIVE Pow2(_)
Pow2(n) == IF n = 0 THEN 1 ELSE 2 * Pow2(n - 1)

\* Line 270: (2 ** attempt) + (random.randint(0, 1000) / 1000.0), in
\* milliseconds
BackoffTimer(attempt, jitter) == Pow2(attempt) * 1000 + jitter

\* A slip: the attempt number is not capped.
NextAttemptUncapped(attempt) == attempt + 1

\* Lines 277-278
NextAttempt(attempt) ==
  IF attempt < MAX_BACKOFF_MULTIPLE THEN attempt + 1 ELSE attempt

\* Lines 246-253: request_with_backoff is entered with an attempt number; it
\* raises RuntimeError when the agent is stopping and makes the request
\* otherwise.
Enter(attempt) ==
  IF running THEN Http("requesting", attempt, 0, NoResponse)
  ELSE Http("raised", attempt, 0, NoResponse)

\* The fields initialize_amqp needs of a 200 response.
Fields == {"amqp_password", "user_id", "host_id"}

\* The responses of the server that are followed.
ServerResponses ==
  {Resp(200, F) : F \in SUBSET Fields} \cup {Resp(st, {}) : st \in {409, 404, 500}}

\* A slip: a response that lacks a field is taken as complete.
CompleteAnyway(resp) == TRUE

\* Line 121: none of obj_id, amqp_password and user_id is None
Complete(resp) == Fields \subseteq resp.fields

\* Lines 104-123: the code initialize_amqp exits with for a response, or none.
ExitOf(resp) ==
  CASE resp.status = 200 -> IF Complete(resp) THEN NoExit ELSE 1
    [] resp.status = 409 -> 409
    [] OTHER             -> resp.status

\* Line 115 of run: ensure_internet_connection returns once the test url can be
\* opened.  While it cannot, the loop sleeps five seconds and tries again,
\* which changes nothing.
RunEnsureInternet ==
  /\ exitCode = NoExit /\ boot = <<>> /\ online
  /\ boot' = <<"ensure_internet_connection">>
  /\ sent' = <<>>
  /\ Step("ensure_internet_connection", "", "ok")
  /\ UNCHANGED <<monitors, kernelVars, loopVars, histVars, threadVars, clockVars, taskVars,
                 netVars, loaded, monitors_dir, external_dir>>

\* Line 128 of run, lines 100-102 of initialize_amqp: the credentials are
\* requested, with attempt 0.  The RuntimeError of a stopping agent is caught
\* nowhere and ends the process.
RunInitializeAmqp ==
  /\ exitCode = NoExit
  /\ boot = <<"ensure_internet_connection", "load_monitors">>
  /\ http.pos = "idle"
  /\ http' = Enter(0)
  /\ exitCode' = IF running THEN NoExit ELSE 1
  /\ sent' = <<>>
  /\ Step("request_with_backoff", "", IF running THEN "requesting" ELSE "raised")
  /\ UNCHANGED <<monitors, kernelVars, loopVars, histVars, threadVars, clockVars, taskVars,
                 running, online, amqp, drain, pub, startVars>>

\* Lines 259-274: the request raises socket.error; the delay is drawn and the
\* call sleeps.
HttpSocketError(jitter) ==
  /\ http.pos = "requesting"
  /\ http' = Http("sleeping", http.attempt, BackoffTimer(http.attempt, jitter),
                  NoResponse)
  /\ sent' = <<>>
  /\ Step("request_with_backoff", "", "socket_error")
  /\ UNCHANGED <<monitors, kernelVars, loopVars, histVars, threadVars, clockVars, taskVars,
                 running, online, amqp, drain, exitCode, pub, startVars>>

\* Lines 276-280: the sleep is over, the attempt number goes up to its cap and
\* ensure_internet_connection is called.
HttpWake ==
  /\ http.pos = "sleeping"
  /\ http' = Http("probing", NextAttempt(http.attempt), 0, NoResponse)
  /\ sent' = <<>>
  /\ Step("request_with_backoff", "", "woke")
  /\ UNCHANGED <<monitors, kernelVars, loopVars, histVars, threadVars, clockVars, taskVars,
                 running, online, amqp, drain, exitCode, pub, startVars>>

\* Lines 86-94 and 282: the test url opens, ensure_internet_connection returns
\* and request_with_backoff is entered again.  While the url does not open the
\* loop of ensure_internet_connection sleeps five seconds and tries again,
\* whatever self.running is.
Probe ==
  /\ http.pos = "probing" /\ online
  /\ http' = Enter(http.attempt)
  /\ exitCode' = IF running THEN exitCode ELSE 1
  /\ sent' = <<>>
  /\ Step("request_with_backoff", "", IF running THEN "requesting" ELSE "raised")
  /\ UNCHANGED <<monitors, kernelVars, loopVars, histVars, threadVars, clockVars, taskVars,
                 running, online, amqp, drain, pub, startVars>>

\* Lines 253-258 and 104-148: the request returns a response and
\* initialize_amqp goes on with it: it exits, or it opens the connection and
\* starts the drain worker.
InitializeAmqp(resp) ==
  /\ http.pos = "requesting" /\ online
  /\ http' = Http("returned", http.attempt, 0, resp)
  /\ exitCode' = ExitOf(resp)
  /\ IF ExitOf(resp) = NoExit
     THEN /\ amqp' = "open" /\ drain' = "setup"
          /\ boot' = Append(boot, "initialize_amqp")
     ELSE UNCHANGED <<amqp, drain, boot>>
  /\ sent' = <<>>
  /\ Step("initialize_amqp", "", IF ExitOf(resp) = NoExit THEN "ok" ELSE "exit")
  /\ UNCHANGED <<monitors, kernelVars, loopVars, histVars, threadVars, clockVars, taskVars,
                 running, online, pub, loaded, monitors_dir, external_dir>>

\* stop_amqp: the agent is marked as stopping and the connection released.
Stop ==
  /\ running /\ exitCode = NoExit
  /\ running' = FALSE
  /\ amqp' = IF amqp = "open" THEN "released" ELSE amqp
  /\ sent' = <<>>
  /\ Step("stop_amqp", "", "ok")
  /\ UNCHANGED <<monitors, kernelVars, loopVars, histVars, threadVars, clockVars, taskVars,
                 online, http, drain, exitCode, pub, startVars>>

\* The network comes and goes.
NetworkChanges ==
  /\ online' = ~online
  /\ sent' = <<>>
  /\ Step("network", "", IF online THEN "down" ELSE "up")
  /\ UNCHANGED <<monitors, kernelVars, loopVars, histVars, threadVars, clockVars, taskVars,
                 running, http, amqp, drain, exitCode, pub, startVars>>

\* The uids of the loaded monitors.
Uids(ms) == {ms[i].uid : i \in 1..Len(ms)}

\* Lines 131-132 of run and start_monitor: every loaded monitor is registered
\* under its uid and its polling loop and aggregation loop are started.
RunStartMonitors ==
  /\ exitCode = NoExit
  /\ boot = <<"ensure_internet_connection", "load_monitors", "initialize_amqp">>
  /\ monitors' = Uids(loaded)
  /\ pollLoop' = [m \in Monitors |-> IF m \in Uids(loaded) THEN "running" ELSE "none"]
  /\ aggLoop' = [m \in Monitors |-> IF m \in Uids(loaded) THEN "running" ELSE "none"]
  /\ boot' = Append(boot, "start_monitor")
  /\ sent' = <<>>
  /\ Step("start_monitor", "", "ok")
  /\ UNCHANGED <<kernelVars, pingLoop, errlog, histVars, threadVars, clockVars, taskVars,
                 netVars, loaded, monitors_dir, external_dir>>

\* Lines 134-167 of run: the startup message is put together, its publishing
\* and the start of the keepalive loop are scheduled INITIAL_DELAY from now, in
\* this order, and the reactor is run.
RunSchedule ==
  /\ exitCode = NoExit
  /\ boot = <<"ensure_internet_connection", "load_monitors", "initialize_amqp",
              "start_monitor">>
  /\ boot' = Append(boot, "schedule")
  /\ sent' = <<>>
  /\ Step("run", "", "scheduled")
  /\ UNCHANGED <<monitors, kernelVars, loopVars, histVars, threadVars, clockVars, taskVars,
                 netVars, loaded, monitors_dir, external_dir>>

\* The startup message: the monitors it lists.
Startup(ms) == [key |-> "startup", exchange |-> "agent", monitors |-> ms]

\* The reactor makes the first scheduled call: publish_info_message('startup')
ReactorStartup ==
  /\ exitCode = NoExit
  /\ boot = <<"ensure_internet_connection", "load_monitors", "initialize_amqp",
              "start_monitor", "schedule">>
  /\ boot' = Append(boot, "startup")
  /\ sent' = <<Startup(loaded)>>
  /\ Step("startup", "", "ok")
  /\ UNCHANGED <<monitors, kernelVars, loopVars, histVars, threadVars, clockVars, taskVars,
                 netVars, loaded, monitors_dir, external_dir>>

\* The reactor makes the second scheduled call: start_loop(PING_TIMER,
\* ping_pong), whose first call of ping_pong comes at once.
ReactorPingLoop ==
  /\ exitCode = NoExit
  /\ boot = <<"ensure_internet_connection", "load_monitors", "initialize_amqp",
              "start_monitor", "schedule", "startup">>
  /\ boot' = Append(boot, "ping_loop")
  /\ pingLoop' = "running"
  /\ sent' = <<PingMessage>>
  /\ Step("ping", "", "ok")
  /\ UNCHANGED <<monitors, kernelVars, pollLoop, aggLoop, errlog, histVars, threadVars,
                 clockVars, taskVars, netVars, loaded, monitors_dir,
                 external_dir>>

\* The directories the agent is started with.
StartClasses == {<<Class("res", TRUE)>>, <<Class("res", TRUE), Class("svc", FALSE)>>}
StartConfigs ==
  {<<>>, <<StandardConfig>>,
   <<Config("Status", "load", "ext", "cmd", Missing, Missing, "list",
            Importance(12))>>}

\* The process is started: nothing is loaded, registered or connected.
InitStart ==
  /\ monitors = {}
  /\ InitKernel /\ InitHist /\ InitUntimed
  /\ pollLoop = [m \in Monitors |-> "none"]
  /\ aggLoop = [m \in Monitors |-> "none"]
  /\ pingLoop = "none"
  /\ errlog = {}
  /\ sent = <<>>
  /\ last = [op |-> "init", monitor |-> "", outcome |-> ""]
  /\ running = TRUE /\ online \in BOOLEAN
  /\ http = HttpIdle /\ pub = PubIdle
  /\ reactor = Idle /\ dispatch = Idle
  /\ streamed = [r \in Keys |-> NoStream]
  /\ amqp = "none" /\ drain = "none" /\ exitCode = NoExit
  /\ boot = <<>> /\ loaded = <<>>
  /\ monitors_dir \in StartClasses
  /\ external_dir \in StartConfigs

NextStart ==
  \/ RunEnsureInternet
  \/ RunLoadMonitors
  \/ RunInitializeAmqp
  \/ \E jitter \in Jitters : HttpSocketError(jitter)
  \/ HttpWake
  \/ Probe
  \/ \E resp \in ServerResponses : InitializeAmqp(resp)
  \/ RunStartMonitors
  \/ RunSchedule
  \/ ReactorStartup
  \/ ReactorPingLoop
  \/ Stop
  \/ NetworkChanges

SpecStart == InitStart /\ [][NextStart]_vars

\* A sleep ends, a probe of a reachable network returns, and a request either
\* returns a response or raises socket.error.
FairStart ==
  /\ WF_vars(HttpWake)
  /\ WF_vars(Probe)
  /\ WF_vars(\/ \E jitter \in Jitters : HttpSocketError(jitter)
             \/ \E resp \in ServerResponses : InitializeAmqp(resp))

SpecStartFair == InitStart /\ [][NextStart]_vars /\ FairStart

---------------------------------------------------------------------------
(* The connection at work: publish_info_message with its reconnect and     *)
(* retry, and the worker that runs drain_events.                           *)

MaxAttempts == 4   \* calls of producer.publish followed for one payload

\* The routing keys of the messages published with the default retry=True.
InfoKeys == {"usage", "alert"}

\* The message a call of publish_info_message publishes.
Published(key) == [key |-> key, exchange |-> "agent"]

\* Line 328: if retry
Retries(retry) == retry

\* publish_info_message(routing_key, message) is called, by send_data or by an
\* alert (retry is left at its default True).
PublishInfo(key) ==
  /\ running /\ pub.pos \in {"idle", "done"}
  /\ pub' = Pub("publishing", key, TRUE, 0)
  /\ sent' = <<>>
  /\ Step("publish", "", "called")
  /\ UNCHANGED <<monitors, kernelVars, loopVars, histVars, threadVars, clockVars, taskVars,
                 running, online, http, amqp, drain, exitCode, startVars>>

\* A tick of the keepalive loop: ping_pong calls
\* publish_info_message('ping', {}, retry=False)
PingTick ==
  /\ running /\ pingLoop = "running" /\ pub.pos \in {"idle", "done"}
  /\ pub' = Pub("publishing", "ping", FALSE, 0)
  /\ sent' = <<>>
  /\ Step("ping", "", "called")
  /\ UNCHANGED <<monitors, kernelVars, loopVars, histVars, threadVars, clockVars, taskVars,
                 running, online, http, amqp, drain, exitCode, startVars>>

\* Lines 317-321: producer.publish returns.
PublishOk ==
  /\ pub.pos = "publishing"
  /\ pub' = [pub EXCEPT !.pos = "done", !.attempts = @ + 1]
  /\ sent' = <<Published(pub.key)>>
  /\ Step("publish", "", "published")
  /\ UNCHANGED <<monitors, kernelVars, loopVars, histVars, threadVars, clockVars, taskVars,
                 running, online, http, amqp, drain, exitCode, startVars>>

\* Lines 322-329: producer.publish raises; the error is logged, amqp_reconnect
\* releases the connection and establishes it again, and with retry set
\* publish_info_message calls itself with the same arguments, retry included.
PublishRaises ==
  /\ pub.pos = "publishing" /\ pub.attempts < MaxAttempts
  /\ pub' = [pub EXCEPT !.pos = IF Retries(pub.retry) THEN "publishing" ELSE "done",
                        !.attempts = @ + 1]
  /\ amqp' = "open"
  /\ sent' = <<>>
  /\ Step("publish", "", IF Retries(pub.retry) THEN "retrying" ELSE "dropped")
  /\ UNCHANGED <<monitors, kernelVars, loopVars, histVars, threadVars, clockVars, taskVars,
                 running, online, http, drain, exitCode, startVars>>

\* Lines 191 and 203-205: the while loop of drain_events is entered while the
\* agent is running; otherwise drain_events returns.
Loop(r) == IF r THEN "draining" ELSE "returned"

\* Lines 179-189: the consumer of the task queue is created and consumes.
DrainSetup ==
  /\ drain = "setup"
  /\ drain' = Loop(running)
  /\ sent' = <<>>
  /\ Step("drain_events", "", IF running THEN "consuming" ELSE "not_entered")
  /\ UNCHANGED <<monitors, kernelVars, loopVars, histVars, threadVars, clockVars, taskVars,
                 running, online, http, amqp, exitCode, pub, startVars>>

\* Lines 181-187: creating the consumer raises.  While the agent is running the
\* exception is raised again and ends the worker; while it is stopping the
\* exception is dropped and the loop is not entered.
DrainSetupRaises ==
  /\ drain = "setup"
  /\ drain' = IF running THEN "raised" ELSE "returned"
  /\ sent' = <<>>
  /\ Step("drain_events", "", IF running THEN "raised" ELSE "passed_over")
  /\ UNCHANGED <<monitors, kernelVars, loopVars, histVars, threadVars, clockVars, taskVars,
                 running, online, http, amqp, exitCode, pub, startVars>>

\* Lines 191-195 and 203-205: the agent is stopping; whatever
\* self.amqp.drain_events() raises is passed over, the loop condition fails and
\* drain_events returns.  (While the agent is running, a socket.timeout or
\* socket.error is passed over and the loop goes on, which changes nothing.)
DrainExits ==
  /\ drain = "draining" /\ ~running
  /\ drain' = "returned"
  /\ sent' = <<>>
  /\ Step("drain_events", "", "stopped")
  /\ UNCHANGED <<monitors, kernelVars, loopVars, histVars, threadVars, clockVars, taskVars,
                 running, online, http, amqp, exitCode, pub, startVars>>

\* Lines 196-202: self.amqp.drain_events() raises another exception while the
\* agent is running: it is logged and amqp_reconnect is called.
DrainError ==
  /\ drain = "draining" /\ running
  /\ drain' = "reconnecting"
  /\ amqp' = "released"
  /\ sent' = <<>>
  /\ Step("drain_events", "", "error")
  /\ UNCHANGED <<monitors, kernelVars, loopVars, histVars, threadVars, clockVars, taskVars,
                 running, online, http, exitCode, pub, startVars>>

\* Lines 168-171, 202 and 208: the connection is established again, the loop is
\* left and drain_events calls itself.
DrainReconnected ==
  /\ drain = "reconnecting"
  /\ drain' = "setup"
  /\ amqp' = "open"
  /\ sent' = <<>>
  /\ Step("drain_events", "", "restarted")
  /\ UNCHANGED <<monitors, kernelVars, loopVars, histVars, threadVars, clockVars, taskVars,
                 running, online, http, exitCode, pub, startVars>>

\* initialize_amqp has opened the connection and started the drain worker, and
\* run has gone through.
InitAmqp ==
  /\ monitors = {"res"}
  /\ InitKernel /\ InitLoops /\ InitHist /\ InitUntimed
  /\ running = TRUE /\ online = TRUE
  /\ http = HttpIdle /\ pub = PubIdle
  /\ reactor = Idle /\ dispatch = Idle
  /\ streamed = [r \in Keys |-> NoStream]
  /\ amqp = "open" /\ drain = "setup" /\ exitCode = NoExit
  /\ boot = RunSteps
  /\ loaded = <<Standard("res")>>
  /\ monitors_dir = <<Class("res", TRUE)>>
  /\ external_dir = <<>>

NextAmqp ==
  \/ \E key \in InfoKeys : PublishInfo(key)
  \/ PingTick
  \/ PublishOk
  \/ PublishRaises
  \/ DrainSetup
  \/ DrainSetupRaises
  \/ DrainExits
  \/ DrainError
  \/ DrainReconnected
  \/ Stop

SpecAmqp == InitAmqp /\ [][NextAmqp]_vars

---------------------------------------------------------------------------
(* The agent about to load its monitors (line 125 of run), with the        *)
(* directories holding what they may.                                      *)

MaxBelow == 3   \* how far below 1 the 'importance' of a config goes
MaxAbove == 3   \* how far above 10 the 'importance' of a config goes

Types == {Missing, "usage", "Status", "log", NotAString}

\* The configs the validation is followed for: every field there or not.
ValidationConfigs ==
  {Config(t, n, u, g, s, d, st, NoImportance) :
     t \in Types, n \in {Missing, "load"}, u \in {Missing, "ext"},
     g \in {Missing, "cmd"}, s \in {Missing, "given"},
     d \in {Missing, "percent"}, st \in {Missing, "empty", "list"}}

\* Configs that differ in their importance only.
ImportanceConfigs ==
  {Config(t, "load", "ext", "cmd", "given", "percent", "list", imp) :
     t \in {"usage", "Status"},
     imp \in {NoImportance}
             \cup {Importance(v) : v \in (1 - MaxBelow)..(10 + MaxAbove)}}

\* Two configs nothing is wrong with.
Companions ==
  {StandardConfig,
   Config("status", "disk", "ext", "cmd", "given", Missing, "list", Importance(7))}

LoadDirs ==
  {<<>>}
  \cup {<<c>> : c \in ValidationConfigs \cup ImportanceConfigs}
  \cup {<<c, v>> : c \in ValidationConfigs, v \in Companions}
  \cup {<<v, c>> : c \in ValidationConfigs, v \in Companions}

LoadClasses ==
  {<<Class("res", l1), Class("svc", l2)>> : l1 \in BOOLEAN, l2 \in BOOLEAN}

InitLoad ==
  /\ monitors = {}
  /\ InitKernel /\ InitHist /\ InitUntimed
  /\ pollLoop = [m \in Monitors |-> "none"]
  /\ aggLoop = [m \in Monitors |-> "none"]
  /\ pingLoop = "none"
  /\ errlog = {}
  /\ sent = <<>>
  /\ last = [op |-> "ensure_internet_connection", monitor |-> "", outcome |-> "ok"]
  /\ running = TRUE /\ online = TRUE
  /\ http = HttpIdle /\ pub = PubIdle
  /\ reactor = Idle /\ dispatch = Idle
  /\ streamed = [r \in Keys |-> NoStream]
  /\ amqp = "none" /\ drain = "none" /\ exitCode = NoExit
  /\ boot = <<"ensure_internet_connection">> /\ loaded = <<>>
  /\ monitors_dir \in LoadClasses
  /\ external_dir \in LoadDirs

NextLoad == RunLoadMonitors

SpecLoad == InitLoad /\ [][NextLoad]_vars

---------------------------------------------------------------------------
(* Properties of the usage alert check under a feed (SpecFeed) *)

Cpu(f) == f["res"]["cpu"]

CountersZero(m) ==
  \A s \in SourceSet(m) :
    failing_alert_counters[m][s] = 0 /\ passing_alert_counters[m][s] = 0

\* The two scenarios of threshold 80: the first ends in one failing alert that
\* carries the sixth reading, the second in none.
Scenarios ==
  Cpu(expected_values) = 80 =>
    /\ hist = S1 => /\ sent = <<Alert("res", "cpu", TRUE, 81, 80)>>
                    /\ nTrue = 1
                    /\ Cpu(alert_status)
                    /\ CountersZero("res")
    /\ hist = S2 => /\ sent = <<>>
                    /\ nTrue = 0
                    /\ ~Cpu(alert_status)
                    /\ CountersZero("res")

\* C1 as stated: from alert_status false, the failing=true alerts emitted for the
\* source are as many as the times the reading rose to the threshold or above and
\* stayed there for FLOP_PROTECTION_COUNTER consecutive checks; the readings
\* 85,90,82,88,95,81 emit exactly one, with current_usage 81, and
\* 85,90,70,85,90,70 emit none.
C1_EveryRunAlerts ==
  "res" \in monitors => nTrue = nRuns /\ Scenarios

\* C1 as amended: the failing=true alerts emitted are as many as the runs of
\* FLOP_PROTECTION_COUNTER consecutive readings at or above the threshold that
\* began while alert_status was false (a run that begins while the source is
\* already failing emits none); the two scenarios are as stated.
C1_RunsFromPassingAlert ==
  "res" \in monitors => nTrue = nQual /\ Scenarios

C1_Witness ==
  /\ "res" \in monitors
  /\ nTrue = 2 /\ nQual = 2
  /\ Len(sent) = 1 /\ sent[1].failing

\* C2: with alert_status true, a failing=false alert is emitted exactly by the
\* check that completes FLOP_PROTECTION_COUNTER consecutive readings below the
\* threshold; it is the only alert of that check and leaves alert_status false
\* and both counters zero; a shorter stretch below the threshold emits none.
C2_PassingRecovery ==
  [][ "res" \in monitors =>
        LET passed == \E i \in 1..Len(sent') : ~sent'[i].failing
        IN  /\ passed <=> (Cpu(alert_status) /\ lowRun' = FLOP_PROTECTION_COUNTER)
            /\ passed => /\ Len(sent') = 1
                         /\ ~Cpu(alert_status')
                         /\ Cpu(failing_alert_counters') = 0
                         /\ Cpu(passing_alert_counters') = 0 ]_vars

C2_Witness ==
  /\ "res" \in monitors
  /\ Len(sent) = 1 /\ ~sent[1].failing
  /\ lowRun = FLOP_PROTECTION_COUNTER
  /\ ~Cpu(alert_status)

---------------------------------------------------------------------------
(* Properties of the polls and expected_update tasks of one monitor (Spec) *)

Latest(points) == points[Len(points)]

\* The step is a poll of usage monitor m that stored and checked a data point.
UsagePolled(m) ==
  /\ TYPE(m) = "usage"
  /\ last'.op = "poll" /\ last'.monitor = m /\ last'.outcome = "ok"

C4_FlipOnlyAtFlop ==
  [][ \A m \in Monitors : \A s \in SourceSet(m) :
        alert_status'[m][s] # alert_status[m][s] =>
          /\ last'.op = "poll" /\ last'.monitor = m
          /\ IF alert_status'[m][s]
             THEN failing_alert_counters[m][s] + 1 = FLOP_PROTECTION_COUNTER
             ELSE passing_alert_counters[m][s] + 1 = FLOP_PROTECTION_COUNTER
          /\ failing_alert_counters'[m][s] = 0
          /\ passing_alert_counters'[m][s] = 0 ]_vars

C4_Witness ==
  /\ last.op = "poll" /\ last.monitor = "res"
  /\ Len(sent) = 1 /\ sent[1].key = "alert" /\ ~sent[1].failing
  /\ ~Cpu(alert_status)

\* C5: under every interleaving of polls and expected_update tasks, the failing
\* and the passing counter of a source are never both nonzero.
C5_NotBothCounting ==
  \A m \in Monitors : \A s \in SourceSet(m) :
    ~(failing_alert_counters[m][s] # 0 /\ passing_alert_counters[m][s] # 0)

C5_Witness ==
  /\ Cpu(passing_alert_counters) > 0
  /\ Cpu(failing_alert_counters) = 0
  /\ last.op = "expected_update"

\* C8: a poll tick whose collection fails (get_data raises, or the command it
\* runs fails and yields nothing) changes nothing of the monitor: no data point
\* is appended or flushed, no counter moves, alert_status stays, nothing is sent.
C8_FailedTickChangesNothing ==
  [][ last'.op = "poll" /\ last'.outcome \in {"collect_raised", "no_output"} =>
        /\ UNCHANGED <<data_points, failing_alert_counters,
                       passing_alert_counters, alert_status>>
        /\ sent' = <<>> ]_vars

\* C9: after a poll tick in which get_data raises, the polling loop of that
\* monitor is still scheduled.
C9_FailedTickKeepsLoop ==
  [][ last'.op = "poll" /\ last'.outcome = "collect_raised" =>
        pollLoop'[last'.monitor] = "running" ]_vars

---------------------------------------------------------------------------
(* Properties of the status alert check under a feed (SpecFeed) *)

FailingSent == \E i \in 1..Len(sent) : sent[i].failing

\* C6: a status source sends a failing=true alert only on the check that
\* completes FLOP_PROTECTION_COUNTER consecutive checks whose state differs from
\* the expected one; a shorter mismatch sends none.
C6_StatusFlopProtection ==
  "svc" \in monitors /\ FailingSent => badRun = FLOP_PROTECTION_COUNTER

\* C7: sending a failing=true alert for a status source sets its alert_status,
\* so that the next failing=true alert follows a failing=false one.
C7_StatusLatch ==
  "svc" \in monitors /\ FailingSent => alert_status["svc"]["sshd"]

---------------------------------------------------------------------------
(* Properties of the loops side by side (SpecLoops) *)

Raised(outcome) == outcome \in {"collect_raised", "check_raised", "send_raised"}

LoopOf(op) == IF op = "poll" THEN "poll" ELSE "aggregation"

\* C10: an error raised by a polling or aggregation callback of a monitor is
\* logged and leaves the polling and aggregation loops of every other monitor,
\* and the keepalive loop, as they were.
C10_ErrorIsolation ==
  [][ Raised(last'.outcome) =>
        /\ <<last'.monitor, LoopOf(last'.op)>> \in errlog'
        /\ \A n \in Monitors \ {last'.monitor} :
             pollLoop'[n] = pollLoop[n] /\ aggLoop'[n] = aggLoop[n]
        /\ pingLoop' = pingLoop ]_vars

C10_Witness ==
  /\ <<"res", "poll">> \in errlog /\ pollLoop["res"] = "stopped"
  /\ <<"ext", "aggregation">> \in errlog /\ aggLoop["ext"] = "stopped"
  /\ last = [op |-> "poll", monitor |-> "svc", outcome |-> "ok"]
  /\ aggLoop["svc"] = "running" /\ pingLoop = "running"

---------------------------------------------------------------------------
(* Properties of the aggregation tick of one monitor (Spec) *)

\* The step is a call of send_data for monitor m that published its message.
Flushed(m) ==
  /\ last'.op = "send_data" /\ last'.monitor = m
  /\ Len(sent') = 1 /\ sent'[1].key = TYPE(m) /\ sent'[1].monitor = m

\* C11: right after an aggregation tick that published its message, the data
\* points buffer of the monitor is empty.
C11_BufferClear ==
  [][ \A m \in Monitors :
        Flushed(m) => data_points'[m] = <<>> /\ timestamps'[m] = <<>> ]_vars

C11_Witness ==
  /\ last = [op |-> "send_data", monitor |-> "res", outcome |-> "ok"]
  /\ Len(sent) = 1 /\ Len(sent[1].readings) = MaxPoints
  /\ data_points["res"] = <<>>

\* C14: every aggregation tick of a started monitor, whatever its buffer holds,
\* publishes exactly one info message under the routing key that is the
\* monitor's type, and leaves the aggregation loop scheduled.
C14_EveryTickPublishes ==
  [][ \A m \in monitors :
        last'.op = "send_data" /\ last'.monitor = m
          => /\ Len(sent') = 1 /\ sent'[1].key = TYPE(m)
             /\ aggLoop'[m] = "running" ]_vars

---------------------------------------------------------------------------
(* Properties of the timed aggregation loop (SpecClock) *)

\* How many of the buffered data points of m were recorded at time t or later.
RecordedSince(m, t) ==
  Cardinality({i \in 1..Len(timestamps[m]) : timestamps[m][i] >= t})

\* C12 as stated: no data point whose timestamp is earlier than the tick time
\* less 30 minutes is among the readings an aggregation flush publishes.
C12_WindowOfThirtyMinutes ==
  [][ \A m \in Monitors :
        Flushed(m) =>
          Len(sent'[1].readings) <= RecordedSince(m, now - 30 * 60 * 1000) ]_vars

\* C12 as amended: no data point whose timestamp is earlier than the start of
\* the minute of the tick less 30 minutes is among the readings an aggregation
\* flush publishes (the window reaches back 30 minutes and the seconds and
\* sub-seconds the tick is into its minute).
C12_WindowFromTheMinute ==
  [][ \A m \in Monitors :
        Flushed(m) =>
          Len(sent'[1].readings) <=
            RecordedSince(m, now - 30 * 60 * 1000
                                 - (SecondOf(now) * 1000 + MilliOf(now))) ]_vars

C12_Witness ==
  /\ last = [op |-> "send_data", monitor |-> "res",
             outcome |-> "ok_some_too_old"]
  /\ now = Time(11, 0, 0, 0)
  /\ Len(sent) = 1 /\ Len(sent[1].readings) = 1

\* The boundary the first tick of a monitor started at t is aligned to: with s
\* the seconds of t into its hour, ((s // interval) + 1) * interval.
Boundary(t) ==
  LET s == t % 3600000
      I == AGGREGATION_TIMER * 1000
  IN  (t - s) + ((s \div I) + 1) * I

Distance(a, b) == IF a >= b THEN a - b ELSE b - a

\* C13: the first aggregation tick of an interval-aligned monitor is set within
\* 1 ms of the boundary ((s // interval) + 1) * interval and every later tick one
\* period after the one before; started at 10:17:05 the first tick is at
\* 10:30:00, and the payload of the tick at 10:30:00 carries period 1030.
C13_AlignedToTheBoundary ==
  [][ \A m \in Monitors :
        /\ last'.op = "start" /\ last'.monitor = m /\ HasNextInterval(m)
             => /\ Distance(aggDue'[m], Boundary(now)) <= 1
                /\ now = Time(10, 17, 5, 0) => aggDue'[m] = Time(10, 30, 0, 0)
        /\ Flushed(m)
             => /\ aggDue'[m] = aggDue[m] + AGGREGATION_TIMER * 1000
                /\ now = Time(10, 30, 0, 0) => sent'[1].period = 1030 ]_vars

---------------------------------------------------------------------------
(* Properties of the live streams of one monitor (SpecLive) *)

\* How many of the messages are published on the reports exchange under key r.
Reports(messages, r) ==
  Cardinality({i \in 1..Len(messages) :
                 messages[i].exchange = "reports" /\ messages[i].key = r})

OneSinkPerKey(streams) ==
  \A i, j \in 1..Len(streams) : streams[i] = streams[j] => i = j

\* C15: a live_data start for a known monitor publishes one bootstrap frame, on
\* the reports exchange under the given routing key, that holds the data points
\* not yet flushed, and registers the sink under that key; a second start for
\* the key replaces the sink, and no key ever has more than one sink.
C15_StartBootstrapsAndRegisters ==
  [][ /\ \A id \in TaskIds : \A m \in monitors : \A r \in Keys :
           TaskLiveData(id, m, "start", r) =>
             /\ \A k \in Keys : Reports(sent', k) = IF k = r THEN 1 ELSE 0
             /\ sent'[1] = [key |-> r, exchange |-> "reports", monitor |-> m,
                            data |-> data_points[m],
                            interval |-> MONITOR_TIMER(m)]
             /\ HasSink(livestreams'[m], r)
             /\ \A k \in Keys \ {r} :
                  HasSink(livestreams'[m], k) <=> HasSink(livestreams[m], k)
      /\ \A m \in Monitors : OneSinkPerKey(livestreams'[m]) ]_vars

C15_Witness ==
  /\ last = [op |-> "live_data", monitor |-> "res", outcome |-> "start_again"]
  /\ livestreams["res"] = <<"r2", "r1">>
  /\ Len(data_points["res"]) = MaxPoints
  /\ sent[1].key = "r1" /\ sent[1].data = data_points["res"]

\* PollingMixin is among the bases of the monitor's class.
HasPollingMixin(m) == TYPE(m) # "log"

\* C16: while a sink is registered under routing key r for a monitor, every
\* completed poll of the monitor publishes exactly one frame under r, and a poll
\* of a monitor that has no sink publishes no frame.
C16_EveryPollFansOut ==
  [][ \A m \in monitors :
        /\ HasPollingMixin(m)
        /\ last'.op = "poll" /\ last'.monitor = m
        /\ last'.outcome \in {"ok", "no_output", "noop"}
        => \A r \in Keys :
             Reports(sent', r) = IF HasSink(livestreams[m], r) THEN 1 ELSE 0 ]_vars

\* C17: once a live_data stop for (monitor, r) is handled the monitor has no sink
\* for r, and no poll publishes a frame under r while it has none; a stop for a
\* key that has no sink leaves the sinks as they were.
C17_StopRemovesTheSink ==
  [][ /\ \A id \in TaskIds : \A m \in monitors : \A r \in Keys :
           TaskLiveData(id, m, "stop", r) =>
             /\ ~HasSink(livestreams'[m], r)
             /\ ~HasSink(livestreams[m], r) => livestreams' = livestreams
             /\ \A k \in Keys \ {r} :
                  HasSink(livestreams'[m], k) <=> HasSink(livestreams[m], k)
      /\ \A m \in monitors : \A r \in Keys :
           last'.op = "poll" /\ last'.monitor = m /\ ~HasSink(livestreams[m], r)
             => Reports(sent', r) = 0 ]_vars

C17_Witness ==
  /\ last = [op |-> "live_data", monitor |-> "res", outcome |-> "stop"]
  /\ livestreams["res"] = <<"r2">>
  /\ Len(data_points["res"]) = 1

---------------------------------------------------------------------------
(* Properties of the task callback (SpecTasks) *)

TaskNames == {t.name : t \in Tasks}

\* The step is run_task handling the task of the delivered message.
Handled == last'.op \in TaskNames

\* The responses among the messages: those published on the agent's exchange.
Responses(messages) == SelectSeq(messages, LAMBDA msg : msg.exchange = "agent")

\* C18: the acknowledgement of a delivered task message is issued before its
\* body is parsed and before the handler has any effect, so that a message the
\* agent was killed on while parsing or handling it, or whose handler raised, is
\* not delivered again.
C18_AckBeforeEffect ==
  [][ /\ delivery'.pos = "parsed" => delivery.acked
      /\ Handled => delivery.acked /\ delivery' = NoDelivery
      /\ last'.op = "killed" /\ delivery.pos \in {"acked", "parsed"}
           => delivery' = NoDelivery
      /\ delivery'.pos = "queued"
           => delivery.pos \in {"received", "queued"} /\ ~delivery.acked ]_vars

C18_Witness ==
  /\ last = [op |-> "killed", monitor |-> "", outcome |-> "parsed"]
  /\ delivery = NoDelivery /\ ~consuming

\* C19: a task message whose body is not valid JSON is acknowledged and dropped:
\* no handler runs, nothing of the monitors changes, no response is published,
\* and the task queue is consumed as before.
C19_GarbageIsDropped ==
  [][ delivery.pos = "acked" /\ ~delivery.body.valid /\ last'.op # "killed"
        => /\ delivery.acked /\ delivery' = NoDelivery
           /\ ~Handled /\ last'.outcome = "dropped"
           /\ UNCHANGED <<monitors, kernelVars>>
           /\ sent' = <<>>
           /\ consuming' ]_vars

C19_Witness ==
  /\ last = [op |-> "task_callback", monitor |-> "", outcome |-> "dropped"]
  /\ delivery = NoDelivery /\ consuming

\* C20: a handled task publishes a response exactly when it has a non-null id
\* or its routing key was rewritten (refresh); the response goes to
\* task_complete unless the key was rewritten, and a task with a null id that is
\* no refresh publishes nothing.
C20_ResponseIffIdOrRewritten ==
  [][ Handled =>
        LET t         == delivery.body.task
            responses == Responses(sent')
        IN  /\ Len(responses) = IF t.id # NoId \/ t.name = "refresh" THEN 1 ELSE 0
            /\ \A i \in 1..Len(responses) :
                 responses[i].key = IF t.name = "refresh" THEN RefreshKey(t.item)
                                                          ELSE "task_complete"
            /\ t.id = NoId /\ t.name # "refresh" => sent' = <<>> ]_vars

\* The step is run_task handling a task whose command name is none of refresh,
\* com, expected_update and live_data.
HandledUnknown ==
  /\ Handled
  /\ delivery.body.task.name \notin {"refresh", "com", "expected_update", "live_data"}

\* C21 as stated: every task of an unknown command name is answered with a
\* response of status NOT_IMPLEMENTED and changes no monitor state.
C21_UnknownIsAnswered ==
  [][ HandledUnknown =>
        /\ sent' = <<Response("task_complete", delivery.body.task.id,
                               "NOT_IMPLEMENTED")>>
        /\ UNCHANGED <<monitors, kernelVars>> ]_vars

\* C21: a task of an unknown command name changes no monitor state; it is
\* answered with one response of status NOT_IMPLEMENTED on task_complete when it
\* carries an id, and with nothing when its id is null.
C21_UnknownIsAnsweredIfItHasAnId ==
  [][ HandledUnknown =>
        /\ sent' = IF delivery.body.task.id # NoId
                   THEN <<Response("task_complete", delivery.body.task.id,
                                   "NOT_IMPLEMENTED")>>
                   ELSE <<>>
        /\ UNCHANGED <<monitors, kernelVars>> ]_vars

C21_Witness ==
  /\ last = [op |-> "reboot", monitor |-> "", outcome |-> "not_implemented"]
  /\ sent = <<>> /\ delivery = NoDelivery

---------------------------------------------------------------------------
(* Properties of the expected_update task (Spec) *)

\* What an expected_update task with this id for this uid leaves behind of
\* itself: the record of the step and the response it published. Every step
\* TaskExpectedUpdate(id, uid, _) takes satisfies it.
Answered(id, uid) ==
  /\ last' = [op |-> "expected_update", monitor |-> uid, outcome |-> "ok"]
  /\ sent' = IF Publishes(id, "task_complete") THEN <<TaskComplete(id)>>
                                               ELSE <<>>

\* What C22 says of a step of the task: the step from the state to the next.
MergesOnly(uid, given) ==
  /\ uid \in monitors =>
        /\ \A s \in DOMAIN given : expected_values'[uid][s] = given[s]
        /\ \A s \in SourceSet(uid) \ DOMAIN given :
             expected_values'[uid][s] = expected_values[uid][s]
        /\ DOMAIN expected_values'[uid] = DOMAIN expected_values[uid]
  /\ uid \notin monitors => UNCHANGED expected_values
  /\ \A n \in Monitors \ {uid} : expected_values'[n] = expected_values[n]
  /\ UNCHANGED <<monitors, data_points, failing_alert_counters,
                 passing_alert_counters, alert_status, livestreams,
                 timestamps, loopVars>>

\* C22: an expected_update task for a registered monitor overwrites the given
\* keys of that monitor's expected values and keeps its other keys; it changes
\* neither the counters, the alert status, the data points, the live streams
\* nor anything of another monitor, and for a uid no monitor is registered
\* under it changes no state at all: every step is one that merges only, or is
\* no step of the task. (Answered passes over the steps that cannot be a step
\* of the task named.)
C22_ExpectedUpdateMergesOnly ==
  [][ \A id \in TaskIds : \A uid \in Monitors : Answered(id, uid) =>
        \A given \in Given(uid) :
          MergesOnly(uid, given) \/ ~TaskExpectedUpdate(id, uid, given) ]_vars

\* An update that gave no key has left the expected value of an earlier update
\* standing, beside a buffered data point.
C22_Witness ==
  /\ last = [op |-> "expected_update", monitor |-> "res", outcome |-> "ok"]
  /\ sent = <<>>
  /\ expected_values["res"]["cpu"] = 80
  /\ Len(data_points["res"]) = 1

---------------------------------------------------------------------------
(* Properties of the start of the agent (SpecStart) *)

\* C23: when the credentials request has returned, a 200 response with
\* amqp_password, user_id and host_id has led to the connection being opened
\* and the drain worker started; a 409 response to exit code 409, any other
\* status to that status as exit code, a 200 response that lacks one of the
\* three fields to exit code 1; and whenever the process has exited, no
\* connection was opened and no drain worker started.
C23_BootstrapOutcome ==
  /\ http.pos = "returned" =>
       /\ http.resp.status = 200 /\ Fields \subseteq http.resp.fields
            => exitCode = NoExit /\ amqp \in {"open", "released"} /\ drain # "none"
       /\ http.resp.status = 409 => exitCode = 409
       /\ http.resp.status \notin {200, 409} => exitCode = http.resp.status
       /\ http.resp.status = 200 /\ ~(Fields \subseteq http.resp.fields)
            => exitCode = 1
  /\ exitCode # NoExit => amqp = "none" /\ drain = "none"

\* The request was answered at its third attempt with a 200 response that has
\* no host_id.
C23_Witness ==
  /\ http.pos = "returned" /\ http.attempt = 2
  /\ http.resp = Resp(200, {"amqp_password", "user_id"})
  /\ exitCode = 1 /\ amqp = "none" /\ drain = "none"

\* C24 as stated: the delay slept after a failed request made at attempt a is
\* at least 2^a seconds and less than 2^a + 1 seconds, and the attempt number
\* never exceeds 10.
C24_DelayBelowNextSecond ==
  /\ http.attempt <= 10
  /\ http.pos = "sleeping" =>
       /\ Pow2(http.attempt) * 1000 <= http.timer
       /\ http.timer < Pow2(http.attempt) * 1000 + 1000

\* C24: the delay slept after a failed request made at attempt a is at least
\* 2^a seconds and at most 2^a + 1 seconds, the upper end included, and the
\* attempt number never exceeds 10 however many retries there are.
C24_DelayUpToNextSecond ==
  /\ http.attempt <= 10
  /\ http.pos = "sleeping" =>
       /\ Pow2(http.attempt) * 1000 <= http.timer
       /\ http.timer <= Pow2(http.attempt) * 1000 + 1000

\* A retry at the capped attempt number sleeps 1024 seconds and a full second
\* of jitter.
C24_Witness ==
  /\ http.pos = "sleeping" /\ http.attempt = 10 /\ http.timer = 1025000
  /\ last.outcome = "socket_error"

\* The call of request_with_backoff has unwound: it returned or it raised.
Unwound == http.pos \in {"idle", "returned", "raised"}

\* C25: once the agent is marked as stopping, a request in its retry loop
\* comes to an end, whether the network can be reached or not; a request
\* entered while the agent is stopping raises without being sent.
C25_StoppingEndsTheRequest ==
  /\ (~running) ~> Unwound
  /\ [][ ~running /\ http.pos \in {"idle", "probing"}
           => http'.pos # "requesting" ]_vars

\* Step a was taken before step b, if b was taken at all.
Before(a, b) ==
  \A i \in 1..Len(boot) :
    boot[i] = b => \E j \in 1..(i - 1) : boot[j] = a

\* C28: the steps of the start come in the order network reachable,
\* credentials and connection, monitors loaded, monitors registered and their
\* loops started, startup message published, keepalive started; no monitor is
\* loaded before the connection is open, and the startup message is published
\* before the first ping.
C28_StartupOrder ==
  /\ Before("ensure_internet_connection", "initialize_amqp")
  /\ Before("initialize_amqp", "load_monitors")
  /\ Before("load_monitors", "start_monitor")
  /\ Before("start_monitor", "startup")
  /\ Before("startup", "ping_loop")
  /\ loaded # <<>> => amqp # "none"
  /\ monitors # {} => loaded # <<>> /\ amqp # "none"
  /\ pingLoop = "running" => \E i \in 1..Len(boot) : boot[i] = "startup"

---------------------------------------------------------------------------
(* Properties of the connection at work (SpecAmqp) *)

\* C26: a payload whose publish raises is attempted once more at most when
\* retry is set and not again when it is not, so a ping is attempted exactly
\* once on its keepalive tick, whether the attempt fails or not.
C26_RetryAtMostOnce ==
  /\ pub.retry => pub.attempts <= 2
  /\ ~pub.retry => pub.attempts <= 1
  /\ pub.key = "ping" /\ pub.pos = "done" => pub.attempts = 1

\* C27: while the agent is not stopping the drain worker is consuming, or
\* reconnecting and about to start over, also when the consumer cannot be
\* created again; once the agent is stopping and drain_events has returned it
\* is not started again.
C27_DrainLifecycle ==
  /\ [](running /\ drain # "none" => drain \in {"setup", "draining", "reconnecting"})
  /\ [][ ~running /\ drain = "returned" => drain' = "returned" ]_vars

---------------------------------------------------------------------------
(* Properties of the loading of the monitors (SpecLoad) *)

\* What the validation rules turn away: a config that lacks uid, name, type or
\* get_data, a usage config with neither sources nor default_type, a status
\* config without states, a config whose type is neither usage nor status.
TurnedAway(c) ==
  \/ Missing \in {c.uid, c.name, c.type, c.get_data}
  \/ Lower(c.type) = "usage" /\ c.sources = Missing /\ c.default_type = Missing
  \/ Lower(c.type) = "status" /\ c.states \in {Missing, "empty"}
  \/ Lower(c.type) \notin {"usage", "status"}

\* The monitors nothing is wrong with: the classes that load, then the configs
\* the rules let through.
Sound(classes, dir) ==
  LET built == SelectSeq(classes, LAMBDA k : k.loads)
      valid == SelectSeq(dir, LAMBDA c : ~TurnedAway(c))
  IN  [i \in 1..Len(built) |-> Standard(built[i].uid)]
      \o [i \in 1..Len(valid) |-> Loaded(valid[i])]

\* C29: when load_monitors is through, the monitors loaded are the classes
\* that load and the external configs that pass the validation rules, every
\* one of them and no other, and the agent goes on starting.
C29_FailClosedPerMonitor ==
  last.op = "load_monitors" =>
    /\ loaded = Sound(monitors_dir, external_dir)
    /\ last.outcome = "ok" /\ exitCode = NoExit
    /\ boot = <<"ensure_internet_connection", "load_monitors">>

---------------------------------------------------------------------------
(* Properties of the external monitors' polls (SpecLoops) *)

\* C31: every poll tick of a loaded external usage or status monitor runs its
\* get_data command, appends one data point to its buffer and runs the alert
\* check on it: the run the tick calls is the polling one.
C31_ExternalPollCollects ==
  [][ \A m \in monitors :
        External(m) /\ TYPE(m) \in {"usage", "status"}
        /\ last'.op = "poll" /\ last'.monitor = m
        => /\ last'.outcome # "noop"
           /\ Len(data_points'[m]) = Len(data_points[m]) + 1 ]_vars

---------------------------------------------------------------------------
(* The alert check of the external monitor, called with a reading, beside  *)
(* the expected_update tasks that set its threshold.  (The polling loop of *)
(* an external monitor never calls it: see RunIsPolling.)                  *)

MaxCount == 7   \* checks in a row that count towards a failing alert

\* monitor.alert_check(data) of the external monitor
ExternalCheck(u) ==
  /\ failing_alert_counters["ext"]["load"] < MaxCount
  /\ Feed("ext", u)

InitExternal ==
  /\ monitors = {"ext"}
  /\ InitKernel /\ InitLoops /\ InitHist /\ InitUntimed /\ InitUp

NextExternal ==
  \/ \E u \in Readings("ext") : ExternalCheck(u)
  \/ \E id \in TaskIds : \E given \in Given("ext") :
       TaskExpectedUpdate(id, "ext", given)

SpecExternal == InitExternal /\ [][NextExternal]_vars

---------------------------------------------------------------------------
(* Properties of the external monitor's alert check (SpecExternal) *)

\* The check of reading u is the one that completes the flop protection count
\* of source s: it reaches the point of emitting a failing=true alert.
ReachesFailing(m, s, u) ==
  /\ UsageTrendsToFail(expected_values[m][s], u, alert_status[m][s])
  /\ FlopReached(failing_alert_counters[m][s] + 1)

\* C32: when the alert check of an external monitor reaches the point of
\* emitting a failing=true alert for a source, the alert is emitted,
\* alert_status of the source becomes true, the counters are reset and the
\* check returns without raising.
C32_ExternalAlertIsEmitted ==
  [][ \A u \in Readings("ext") :
        ExternalCheck(u) /\ ReachesFailing("ext", "load", u)
        => /\ sent' = <<Alert("ext", "load", TRUE, u,
                              expected_values["ext"]["load"])>>
           /\ alert_status'["ext"]["load"]
           /\ failing_alert_counters'["ext"]["load"] = 0
           /\ passing_alert_counters'["ext"]["load"] = 0
           /\ last'.outcome = "ok" ]_vars

---------------------------------------------------------------------------
(* Properties of the usage alert check and the threshold it reads (Spec) *)

\* The last step was a poll of usage monitor m whose alert check ran.
UsageChecked(m) ==
  /\ TYPE(m) = "usage"
  /\ last.op = "poll" /\ last.monitor = m
  /\ last.outcome \in {"ok", "check_raised"}

\* The alerts the last step sent for source s of monitor m.
AlertsOf(m, s) ==
  {i \in 1..Len(sent) :
     sent[i].key = "alert" /\ sent[i].monitor = m /\ sent[i].source = s}

\* C33: for a usage source that has no expected value, every alert check leaves
\* both counters of the source at zero and sends no alert, whatever the reading
\* and whatever the alert status of the source.
C33_NoThresholdResets ==
  \A m \in monitors : \A s \in SourceSet(m) :
    UsageChecked(m) /\ expected_values[m][s] = None
      => /\ failing_alert_counters[m][s] = 0
         /\ passing_alert_counters[m][s] = 0
         /\ AlertsOf(m, s) = {}

\* A check of a failing source whose expected value was taken away, with a
\* reading above the former threshold.
C33_Witness ==
  /\ last = [op |-> "poll", monitor |-> "res", outcome |-> "ok"]
  /\ Cpu(expected_values) = None
  /\ Cpu(alert_status)
  /\ Latest(data_points["res"])["cpu"] = 85
  /\ CountersZero("res") /\ sent = <<>>

\* C34: the failing rule applies to every threshold there is, T = 0 included:
\* after a check of a reading u >= T the source either is failing or has a
\* failing counter above zero.
C34_ZeroIsAThreshold ==
  \A m \in monitors : \A s \in SourceSet(m) :
    LET T == expected_values[m][s]
        u == Latest(data_points[m])[s]
    IN  UsageChecked(m) /\ T # None /\ u # None /\ u >= T
          => alert_status[m][s] \/ failing_alert_counters[m][s] > 0

---------------------------------------------------------------------------
(* The poll of a monitor and the live_data tasks, thread by thread.  The   *)
(* polling loop calls monitor.run in the reactor thread; drain_events, and *)
(* with it task_callback and run_task, runs in a thread of the reactor's   *)
(* pool (callInThread).  No lock is taken by either.  A step is what a     *)
(* thread does between two points at which the other may run.              *)

MaxStarts == 1   \* live_data starts handled for one routing key

\* The poll the reactor thread is in the middle of.  An iterator over
\* livestreams remembers the dict as it was when it was created (snapshot)
\* and has gone through some of its sinks (delivered: their keys, in order).
Run(m, data, pos, snapshot, delivered) ==
  [op |-> "run", monitor |-> m, data |-> data, pos |-> pos,
   snapshot |-> snapshot, delivered |-> delivered]

\* The live_data start the worker thread is in the middle of.
Starting(m, key) == [op |-> "live_data", monitor |-> m, key |-> key]

\* The data points a frame carries, by the place they have in the buffer.
Sent(stream, places) == [stream EXCEPT !.points = @ \o places]

Places(n) == [i \in 1..n |-> i]

\* PollingMixin.run, lines 255-257: the data point is collected, stored and
\* checked.
RunStore(m, data) ==
  /\ reactor = Idle
  /\ m \in monitors /\ pollLoop[m] = "running"
  /\ RunIsPolling(m)
  /\ Len(data_points[m]) < MaxPoints
  /\ LET a == alert_check(m, data) IN
       /\ store_data_point(m, data)
       /\ Checked(m, a)
       /\ sent' = a.alerts
       /\ IF a.raised
          THEN /\ pollLoop' = LoopFailed(pollLoop, m)
               /\ Logged(m, "poll")
               /\ Step("poll", m, "check_raised")
               /\ UNCHANGED reactor
          ELSE /\ UNCHANGED <<pollLoop, errlog>>
               /\ Step("poll", m, "checked")
               /\ reactor' = Run(m, data, "checked", <<>>, <<>>)
  /\ UNCHANGED <<monitors, expected_values, livestreams, aggLoop, pingLoop,
                 histVars, now, aggDue, taskVars, netVars, startVars,
                 dispatch, streamed>>

\* Lines 260-266: `if self.livestreams:` and the iterator of
\* `for publish in self.livestreams.itervalues()`.
RunEnumerate ==
  /\ reactor.op = "run" /\ reactor.pos = "checked"
  /\ LET m == reactor.monitor IN
       IF livestreams[m] = <<>>
       THEN /\ reactor' = Idle
            /\ Step("poll", m, PollOutcome(m, reactor.data))
       ELSE /\ reactor' = Run(m, reactor.data, "fanout", livestreams[m], <<>>)
            /\ Step("poll", m, "enumerating")
  /\ sent' = <<>>
  /\ UNCHANGED <<monitors, kernelVars, loopVars, histVars, clockVars, taskVars,
                 netVars, startVars, dispatch, streamed>>

\* The sinks the iterator may come to next.  An iterator over a dict that
\* has another size than when the iterator was made raises RuntimeError
\* ("dictionary changed size during iteration"); over a dict of the same size
\* whose keys were replaced it goes on through the table, and comes to any of
\* the keys there are now or to the end.
Changed == Len(livestreams[reactor.monitor]) # Len(reactor.snapshot)

NextSinks ==
  LET streams == livestreams[reactor.monitor] IN
  IF Len(reactor.delivered) >= Len(reactor.snapshot) THEN {}
  ELSE IF streams = reactor.snapshot
       THEN {streams[Len(reactor.delivered) + 1]}
  ELSE {streams[i] : i \in 1..Len(streams)}

\* Line 266-267: the next sink is called with the frame.
RunPublish(key) ==
  /\ reactor.op = "run" /\ reactor.pos = "fanout"
  /\ ~Changed /\ key \in NextSinks
  /\ LET m == reactor.monitor IN
       /\ sent' = <<Frame(key, m, reactor.data)>>
       /\ streamed' = [streamed EXCEPT
                         ![key] = Sent(@, <<Len(data_points[m])>>)]
       /\ reactor' = [reactor EXCEPT !.delivered = Append(@, key)]
       /\ Step("poll", m, "frame")
  /\ UNCHANGED <<monitors, kernelVars, loopVars, histVars, clockVars, taskVars,
                 netVars, startVars, dispatch>>

\* The iterator is through: run returns.
RunReturns ==
  /\ reactor.op = "run" /\ reactor.pos = "fanout"
  /\ ~Changed
  /\ \/ Len(reactor.delivered) >= Len(reactor.snapshot)
     \/ livestreams[reactor.monitor] # reactor.snapshot
  /\ reactor' = Idle
  /\ sent' = <<>>
  /\ Step("poll", reactor.monitor, PollOutcome(reactor.monitor, reactor.data))
  /\ UNCHANGED <<monitors, kernelVars, loopVars, histVars, clockVars, taskVars,
                 netVars, startVars, dispatch, streamed>>

\* The iterator raises RuntimeError: run raises, and the polling loop ends.
RunRaises ==
  /\ reactor.op = "run" /\ reactor.pos = "fanout"
  /\ Changed
  /\ reactor' = Idle
  /\ pollLoop' = LoopFailed(pollLoop, reactor.monitor)
  /\ Logged(reactor.monitor, "poll")
  /\ sent' = <<>>
  /\ Step("poll", reactor.monitor, "fanout_raised")
  /\ UNCHANGED <<monitors, kernelVars, aggLoop, pingLoop, histVars, clockVars,
                 taskVars, netVars, startVars, dispatch, streamed>>

\* run_task, live_data start, lines 441-453: the data points merged so far
\* are published under the routing key.
LiveDataBootstrap(m, key) ==
  /\ dispatch = Idle
  /\ m \in monitors
  /\ streamed[key].starts < MaxStarts
  /\ sent' = <<Bootstrap(key, m, merge_data(m, 0), MONITOR_TIMER(m))>>
  /\ streamed' = [streamed EXCEPT
                    ![key] = [Sent(@, Places(Len(merge_data(m, 0))))
                                EXCEPT !.starts = @ + 1]]
  /\ dispatch' = Starting(m, key)
  /\ Step("live_data", m, "bootstrap")
  /\ UNCHANGED <<monitors, kernelVars, loopVars, histVars, clockVars, taskVars,
                 netVars, startVars, reactor>>

\* Lines 455-456 and 474-476: the sink is stored on the monitor, and the
\* response of the task published.
LiveDataRegister ==
  /\ dispatch.op = "live_data"
  /\ LET m == dispatch.monitor
         key == dispatch.key
     IN  /\ livestreams' = [livestreams EXCEPT ![m] = SetSink(@, key)]
         /\ sent' = IF Publishes(EmptyList, "task_complete")
                    THEN <<[key |-> "task_complete", exchange |-> "agent",
                            id |-> EmptyList, readings |-> merge_data(m, 0)]>>
                    ELSE <<>>
         /\ Step("live_data", m,
                 IF HasSink(livestreams[m], key) THEN "start_again" ELSE "start")
  /\ dispatch' = Idle
  /\ UNCHANGED <<monitors, expected_values, data_points, failing_alert_counters,
                 passing_alert_counters, alert_status, loopVars, histVars,
                 clockVars, taskVars, netVars, startVars, reactor, streamed>>

\* run_task, live_data stop, lines 457-467
LiveDataStop(id, m, key) ==
  /\ dispatch = Idle
  /\ m \in monitors
  /\ livestreams' = [livestreams EXCEPT ![m] = DelSink(@, key)]
  /\ streamed' = [streamed EXCEPT ![key].stopped = @ \/ streamed[key].starts > 0]
  /\ sent' = IF Publishes(id, "task_complete") THEN <<TaskComplete(id)>>
                                                ELSE <<>>
  /\ Step("live_data", m,
          IF HasSink(livestreams[m], key) THEN "stop" ELSE "not_streaming")
  /\ UNCHANGED <<monitors, expected_values, data_points, failing_alert_counters,
                 passing_alert_counters, alert_status, loopVars, histVars,
                 clockVars, taskVars, netVars, startVars, reactor, dispatch>>

InitFanout ==
  /\ monitors = {"res"}
  /\ InitKernel /\ InitLoops /\ InitHist /\ InitUntimed /\ InitUp

NextFanout ==
  \/ \E m \in Monitors : RunStore(m, Steady(m))
  \/ RunEnumerate
  \/ \E key \in Keys : RunPublish(key)
  \/ RunReturns
  \/ RunRaises
  \/ \E m \in Monitors : \E key \in Keys : LiveDataBootstrap(m, key)
  \/ LiveDataRegister
  \/ \E id \in TaskIds : \E m \in Monitors : \E key \in Keys :
       LiveDataStop(id, m, key)

SpecFanout == InitFanout /\ [][NextFanout]_vars

---------------------------------------------------------------------------
(* Properties of the fan-out and the live_data tasks, thread by thread     *)
(* (SpecFanout)                                                            *)

\* The step ends the enumeration of the sinks of a poll.
EnumerationEnds ==
  reactor.op = "run" /\ reactor.pos = "fanout" /\ reactor' = Idle

\* C35: the enumeration of a monitor's sinks by a poll ends without an error,
\* and has delivered the frame to every sink there was when it began, also
\* when a live_data task registers or removes a sink of the monitor meanwhile.
C35_FanoutIsASnapshot ==
  [][ EnumerationEnds =>
        /\ last'.outcome # "fanout_raised"
        /\ pollLoop'[reactor.monitor] = "running"
        /\ reactor.delivered = reactor.snapshot ]_vars

\* The stream of key r was started once and not stopped, its sink is stored
\* on the monitor, and neither thread is in the middle of a call.
Streaming(m, r) ==
  /\ reactor = Idle /\ dispatch = Idle
  /\ streamed[r].starts = 1 /\ ~streamed[r].stopped
  /\ HasSink(livestreams[m], r)

\* How many times the data point at a place of the buffer was sent to a stream.
TimesSent(stream, place) ==
  Cardinality({i \in 1..Len(stream.points) : stream.points[i] = place})

\* C39: a live stream started while the monitor is polling has got every data
\* point collected exactly once, in the bootstrap frame or in one live frame.
C39_ExactlyOnce ==
  \A m \in monitors : \A r \in Keys :
    Streaming(m, r) /\ pollLoop[m] = "running"
      => \A place \in 1..Len(data_points[m]) : TimesSent(streamed[r], place) = 1

---------------------------------------------------------------------------
(* The alert check of a usage monitor of two sources (the process monitor, *)
(* whose sources are the cpu and the ram of each process), source by       *)
(* source, beside the expected_update tasks of the worker thread.          *)

Installed == Monitors \cup {"proc"}

\* The alert check the reactor thread is in the middle of: the sources before
\* place i are through.  History: the threshold each of them was checked
\* against (seen) and the expected values of the monitor as they were at each
\* of these checks (versions).
Check(m, data, i, seen, versions) ==
  [op |-> "alert_check", monitor |-> m, data |-> data, i |-> i,
   seen |-> seen, versions |-> versions]

\* A reading of u for every source.
Uniform(m, u) == [s \in SourceSet(m) |-> u]

\* The expected_update tasks followed here: one threshold for every source.
Whole(uid) == {Uniform(uid, v) : v \in {80, 85}}

\* PollingMixin.run, lines 255-256, and the entry of alert_check
RunCollect(m, data) ==
  /\ reactor = Idle
  /\ m \in monitors /\ pollLoop[m] = "running"
  /\ RunIsPolling(m)
  /\ Len(data_points[m]) < MaxPoints
  /\ store_data_point(m, data)
  /\ reactor' = Check(m, data, 1, <<>>, <<>>)
  /\ sent' = <<>>
  /\ Step("poll", m, "stored")
  /\ UNCHANGED <<monitors, expected_values, failing_alert_counters,
                 passing_alert_counters, alert_status, livestreams, loopVars,
                 histVars, now, aggDue, taskVars, netVars, startVars,
                 dispatch, streamed>>

\* UsageMonitor.alert_check, lines 319-364: one pass of the loop over the
\* sources, which reads expected_values.get(source) at its top.
CheckNext ==
  /\ reactor.op = "alert_check"
  /\ reactor.i <= Len(SOURCES(reactor.monitor))
  /\ LET m == reactor.monitor
         s == SOURCES(m)[reactor.i]
         a == CheckSource(m, s, expected_values[m], reactor.data,
                          [fc |-> failing_alert_counters[m],
                           pc |-> passing_alert_counters[m],
                           st |-> alert_status[m],
                           alerts |-> <<>>, raised |-> FALSE])
     IN  /\ Checked(m, a)
         /\ sent' = a.alerts
         /\ IF a.raised
            THEN /\ pollLoop' = LoopFailed(pollLoop, m)
                 /\ Logged(m, "poll")
                 /\ reactor' = Idle
                 /\ Step("poll", m, "check_raised")
            ELSE /\ UNCHANGED <<pollLoop, errlog>>
                 /\ reactor' = [reactor EXCEPT
                                  !.i = @ + 1,
                                  !.seen = Append(@, expected_values[m][s]),
                                  !.versions = Append(@, expected_values[m])]
                 /\ Step("poll", m, "source_checked")
  /\ UNCHANGED <<monitors, expected_values, data_points, livestreams, aggLoop,
                 pingLoop, histVars, clockVars, taskVars, netVars, startVars,
                 dispatch, streamed>>

\* The loop over the sources is through: alert_check returns to run.
CheckReturns ==
  /\ reactor.op = "alert_check"
  /\ reactor.i > Len(SOURCES(reactor.monitor))
  /\ reactor' = Run(reactor.monitor, reactor.data, "checked", <<>>, <<>>)
  /\ sent' = <<>>
  /\ Step("poll", reactor.monitor, "checked")
  /\ UNCHANGED <<monitors, kernelVars, loopVars, histVars, clockVars, taskVars,
                 netVars, startVars, dispatch, streamed>>

InitCheck ==
  /\ monitors = {"proc"}
  /\ expected_values = [m \in Installed |-> [s \in SourceSet(m) |-> Unset(m)]]
  /\ data_points = [m \in Installed |-> <<>>]
  /\ failing_alert_counters = [m \in Installed |-> [s \in SourceSet(m) |-> 0]]
  /\ passing_alert_counters = [m \in Installed |-> [s \in SourceSet(m) |-> 0]]
  /\ alert_status = [m \in Installed |-> [s \in SourceSet(m) |-> FALSE]]
  /\ livestreams = [m \in Installed |-> <<>>]
  /\ pollLoop = [m \in Installed |-> IF m \in monitors THEN "running" ELSE "none"]
  /\ aggLoop  = [m \in Installed |-> IF m \in monitors THEN "running" ELSE "none"]
  /\ pingLoop = "running" /\ errlog = {}
  /\ sent = <<>> /\ last = [op |-> "init", monitor |-> "", outcome |-> ""]
  /\ now = Time(10, 17, 5, 0)
  /\ timestamps = [m \in Installed |-> <<>>]
  /\ aggDue = [m \in Installed |-> None]
  /\ delivery = NoDelivery /\ consuming = TRUE
  /\ InitHist /\ InitUp

NextCheck ==
  \/ \E u \in Usages : RunCollect("proc", Uniform("proc", u))
  \/ CheckNext
  \/ CheckReturns
  \/ RunEnumerate
  \/ \E id \in TaskIds : \E given \in Whole("proc") :
       TaskExpectedUpdate(id, "proc", given)

SpecCheck == InitCheck /\ [][NextCheck]_vars

---------------------------------------------------------------------------
(* Properties of the alert check, source by source (SpecCheck) *)

\* The thresholds the sources were checked against are those of one of the
\* values expected_values had.
OfOneVersion(m, seen, versions) ==
  \E k \in 1..Len(versions) :
    \A i \in 1..Len(seen) : seen[i] = versions[k][SOURCES(m)[i]]

\* C36: an expected_update task is atomic with respect to the alert check of
\* its monitor: no alert check has checked some of the sources against the
\* expected values from before the task and others against those after it.
C36_CheckSeesOneVersion ==
  reactor.op = "alert_check" /\ reactor.seen # <<>>
    => OfOneVersion(reactor.monitor, reactor.seen, reactor.versions)

---------------------------------------------------------------------------
(* The polls and aggregation ticks of the resources monitor beside the     *)
(* expected_update tasks that move its threshold.                          *)

InitAlerts ==
  /\ monitors = {"res"}
  /\ InitKernel /\ InitLoops /\ InitHist /\ InitUntimed /\ InitUp

NextAlerts ==
  \/ \E data \in DataOf("res") : PollRun("res", data)
  \/ SendData("res")
  \/ \E id \in TaskIds : \E given \in Given("res") :
       TaskExpectedUpdate(id, "res", given)

SpecAlerts == InitAlerts /\ [][NextAlerts]_vars

---------------------------------------------------------------------------
(* Properties of the sequence of alerts of a usage source (SpecAlerts) *)

\* The places of the alerts for source s of monitor m among the messages msgs.
AlertsIn(msgs, m, s) ==
  {i \in 1..Len(msgs) :
     msgs[i].key = "alert" /\ msgs[i].monitor = m /\ msgs[i].source = s}

\* A step sends at most one alert for the source; the alert it sends says the
\* opposite of the alert status the source had and is the alert status the
\* source has from then on; a step that sends none leaves the alert status.
AlertFlips(m, s) ==
  LET new == AlertsIn(sent', m, s) IN
    /\ Cardinality(new) <= 1
    /\ \A i \in new : /\ sent'[i].failing = ~alert_status[m][s]
                      /\ alert_status'[m][s] = sent'[i].failing
    /\ new = {} => alert_status'[m][s] = alert_status[m][s]

\* C38: for each source of a usage monitor, over any sequence of polls and
\* expected_update tasks, the alerts sent alternate between failing=true and
\* failing=false, the first being failing=true, and the alert status of the
\* source is the failing value of the latest alert sent for it (false when
\* none was sent): the status starts false, and every step either sends no
\* alert and keeps the status or sends one alert, which says the opposite of
\* the status before and is the status after.
C38_AlertsAlternate ==
  /\ \A m \in monitors : \A s \in SourceSet(m) : ~alert_status[m][s]
  /\ [][ \A m \in monitors : \A s \in SourceSet(m) :
           TYPE(m) = "usage" => AlertFlips(m, s) ]_vars

\* A poll that sent the failing=false alert of a source that was failing, after
\* a task had moved the threshold above the readings.
C38_Witness ==
  /\ last.op = "poll" /\ last.monitor = "res"
  /\ \E i \in AlertsIn(sent, "res", "cpu") :
       ~sent[i].failing /\ sent[i].expected = 85 /\ sent[i].current = 80
  /\ ~Cpu(alert_status)

---------------------------------------------------------------------------
(* The drain worker with the task queue: task_callback is called from      *)
(* within self.amqp.drain_events(), so what a handler raises comes out of  *)
(* that call in the loop of drain_events.  The broker is reachable and the *)
(* task queue exists: the consumer is created whenever drain_events asks   *)
(* for it (DrainSetupRaises is followed in SpecAmqp).                      *)

MaxDepth == 2   \* nested calls of drain_events followed

\* A body that is JSON and has no 'command' field.
NoCommand == "<no command>"
Nameless(id) == Task(id, NoCommand, "", "", "", "", <<>>)

\* Lines 378 and 385: client_task['command'] raises KeyError for a task
\* without a command, getattr(sysinfo, 'pull_<item>') raises AttributeError
\* for an item sysinfo has no function for.
Raises(t) ==
  \/ t.name = NoCommand
  \/ t.name = "refresh" /\ t.item \notin PullItems

\* The drain worker inside its n-th nested call of drain_events.
Nested(n) == [op |-> "drain_events", depth |-> n]
Depth == IF dispatch = Idle THEN 0 ELSE dispatch.depth

HandlerTasks ==
  UNION {
    {ExpectedUpdate(id, "res", [s \in {"cpu"} |-> 85]),
     LiveData(id, "res", "start", "r1"),
     Refresh(id, "os"), Refresh(id, "bogus"), Nameless(id)} : id \in TaskIds }

HandlerBodies == {Garbage} \cup {Body(t) : t \in HandlerTasks}

\* The consumer receives a message while the worker is in the loop.
Consume(body) ==
  /\ drain = "draining" /\ running
  /\ Raises(body.task) => Depth < MaxDepth
  /\ TaskDelivered(body)

\* run_task returns.
HandlerReturns ==
  /\ ~Raises(delivery.body.task)
  /\ TaskRun

\* A slip: the broker keeps the message whether it was acknowledged or not.
ReleasedUnacked(d) == [d EXCEPT !.pos = "queued"]

\* The connection is released with the message on it: the broker keeps for
\* another delivery what it has no acknowledgement of.
Released(d) == IF d.acked THEN NoDelivery ELSE [d EXCEPT !.pos = "queued"]

\* run_task raises, task_callback lets the exception through and so does
\* self.amqp.drain_events(): lines 196-202 of drain_events log it and call
\* amqp_reconnect while the agent is running, and pass it over while the agent
\* is stopping, when the loop ends.
HandlerRaises ==
  /\ delivery.pos = "parsed" /\ Raises(delivery.body.task)
  /\ drain = "draining"
  /\ delivery' = Released(delivery)
  /\ drain' = IF running THEN "reconnecting" ELSE "returned"
  /\ amqp' = IF running THEN "released" ELSE amqp
  /\ sent' = <<>>
  /\ Step(delivery.body.task.name, "", "task_raised")
  /\ UNCHANGED <<monitors, kernelVars, loopVars, histVars, threadVars,
                 clockVars, consuming, running, online, http, exitCode, pub,
                 startVars>>

\* Lines 168-171, 202 and 208: amqp_reconnect returns, the loop is left and
\* drain_events calls itself.
DrainRestarted ==
  /\ drain = "reconnecting"
  /\ drain' = "setup"
  /\ amqp' = "open"
  /\ dispatch' = Nested(Depth + 1)
  /\ sent' = <<>>
  /\ Step("drain_events", "", "restarted")
  /\ UNCHANGED <<monitors, kernelVars, loopVars, histVars, reactor, streamed,
                 clockVars, taskVars, running, online, http, exitCode, pub,
                 startVars>>

\* The loop of drain_events finds the agent stopping (between two calls of
\* self.amqp.drain_events(), so with no message in the hands of the callback).
WorkerExits == delivery = NoDelivery /\ DrainExits

InitHandler ==
  /\ monitors = {"res"}
  /\ InitKernel /\ InitLoops /\ InitHist /\ InitUntimed /\ InitUp

NextHandler ==
  \/ \E body \in HandlerBodies : Consume(body)
  \/ TaskAck
  \/ TaskParse
  \/ HandlerReturns
  \/ HandlerRaises
  \/ DrainRestarted
  \/ DrainSetup
  \/ WorkerExits
  \/ Stop

\* amqp_reconnect returns once the broker is reached, and the call of
\* drain_events that follows it creates the consumer.
FairHandler == WF_vars(DrainRestarted) /\ WF_vars(DrainSetup)

SpecHandler == InitHandler /\ [][NextHandler]_vars /\ FairHandler

---------------------------------------------------------------------------
(* Properties of a task whose handler raises (SpecHandler) *)

\* The task in hand is one whose handler raises.
Raising == delivery.pos = "parsed" /\ Raises(delivery.body.task)

---------------------------------------------------------------------------
(* The reactor thread: start_loop hands every polling loop, every          *)
(* aggregation loop and the keepalive to a LoopingCall of the one reactor, *)
(* which runs a callback to its end before it looks at the next call that  *)
(* is due.  Two monitors, whose aggregation ticks fall on the same half    *)
(* hours, with publish_info_message failing and reconnecting inside a      *)
(* callback.                                                               *)

MaxFailures == 1   \* failures of producer.publish followed for one message

\* amqp_reconnect: ensure_connection(interval_start=5, ...), the seconds it
\* sleeps when the first attempt to connect fails
interval_start == 5

\* The time amqp_reconnect takes, in milliseconds: the connection is there at
\* once, or after one sleep.
ReconnectTimes == {0, interval_start * 1000}

\* The reactor inside a call of send_data of monitor m, with the message
\* send_data has built.
Callback(m, message) == [op |-> "send_data", monitor |-> m, message |-> message]

\* The loops the reactor has a call scheduled for.
Scheduled == {m \in monitors : aggLoop[m] = "running"}

Earlier(t, u) == IF t < u THEN t ELSE u

RECURSIVE NextDue(_)
NextDue(S) ==
  LET m == CHOOSE x \in S : TRUE
  IN  IF S = {m} THEN aggDue[m] ELSE Earlier(aggDue[m], NextDue(S \ {m}))

\* The reactor has nothing to run until the next call is due.
Await ==
  /\ reactor = Idle /\ Scheduled # {}
  /\ now < NextDue(Scheduled) /\ NextDue(Scheduled) <= Time(MaxHour, 0, 0, 0)
  /\ now' = NextDue(Scheduled)
  /\ sent' = <<>>
  /\ Step("clock", "", "due")
  /\ UNCHANGED <<monitors, kernelVars, loopVars, histVars, threadVars,
                 timestamps, aggDue, taskVars, netVars, startVars>>

\* A tick of a polling loop
Poll(m) == reactor = Idle /\ PollRun(m, Steady(m))

\* A tick of an aggregation loop with nothing to send
TickRaises(m) == reactor = Idle /\ SendDataRaises(m)

\* send_data up to its call of publish_info_message
TickBegins(m) ==
  /\ reactor = Idle /\ pub.pos \in {"idle", "done"}
  /\ m \in Scheduled /\ Due(m)
  /\ merge_data(m, Earliest(now)) # <<>>
  /\ reactor' = Callback(m, Info(m, merge_data(m, Earliest(now)), Period(now)))
  /\ pub' = Pub("publishing", TYPE(m), TRUE, 0)
  /\ sent' = <<>>
  /\ Step("send_data", m, "publishing")
  /\ UNCHANGED <<monitors, kernelVars, loopVars, histVars, dispatch, streamed,
                 clockVars, taskVars, running, online, http, amqp, drain,
                 exitCode, startVars>>

\* Lines 322-329 of publish_info_message inside the callback: producer.publish
\* raises, amqp_reconnect returns after t milliseconds and the publish is
\* tried again.
TickReconnects(t) ==
  /\ reactor.op = "send_data"
  /\ pub.pos = "publishing" /\ pub.attempts < MaxFailures
  /\ pub' = [pub EXCEPT !.attempts = @ + 1]
  /\ amqp' = "open"
  /\ now' = now + t
  /\ sent' = <<>>
  /\ Step("publish", reactor.monitor, "retrying")
  /\ UNCHANGED <<monitors, kernelVars, loopVars, histVars, threadVars,
                 timestamps, aggDue, taskVars, running, online, http, drain,
                 exitCode, startVars>>

\* producer.publish returns, and send_data and the callback with it.
TickPublished ==
  /\ reactor.op = "send_data" /\ pub.pos = "publishing"
  /\ LET m == reactor.monitor IN
       /\ sent' = <<reactor.message>>
       /\ data_points' = [data_points EXCEPT ![m] = ClearBuffer(@)]
       /\ timestamps' = [timestamps EXCEPT ![m] = ClearBuffer(@)]
       /\ aggDue' = Rescheduled(m)
       /\ Step("send_data", m, "ok")
  /\ pub' = [pub EXCEPT !.pos = "done", !.attempts = @ + 1]
  /\ reactor' = Idle
  /\ UNCHANGED <<monitors, expected_values, failing_alert_counters,
                 passing_alert_counters, alert_status, livestreams, loopVars,
                 histVars, dispatch, streamed, now, taskVars, running, online,
                 http, amqp, drain, exitCode, startVars>>

InitReactor ==
  /\ monitors = {"res", "svc"}
  /\ InitKernel /\ InitLoops /\ InitHist /\ InitUp
  /\ now = Time(10, 17, 5, 0)
  /\ timestamps = [m \in Monitors |-> <<>>]
  /\ aggDue = [m \in Monitors |->
                 IF m \in monitors THEN now + AggregationDelay(m, now) ELSE None]
  /\ delivery = NoDelivery /\ consuming = TRUE

NextReactor ==
  \/ Await
  \/ \E m \in Monitors : Poll(m)
  \/ \E m \in Monitors : TickRaises(m)
  \/ \E m \in Monitors : TickBegins(m)
  \/ \E t \in ReconnectTimes : TickReconnects(t)
  \/ TickPublished

SpecReactor == InitReactor /\ [][NextReactor]_vars

---------------------------------------------------------------------------
(* Properties of the reactor thread (SpecReactor) *)

\* The call of monitor n's aggregation loop is past its time.
Overdue(n) == n \in Scheduled /\ aggDue[n] < now

\* C37: the scheduler context never blocks: while the callback of one monitor
\* is dealing with a publish failure and its reconnect, no tick of another
\* monitor is kept waiting past its time.
C37_NoTickWaitsForACallback ==
  reactor.op = "send_data"
    => \A n \in monitors \ {reactor.monitor} : ~Overdue(n)

=============================================================================
